---- MODULE Spec2Model ----
(***************************************************************************)
(* Run-session pipeline of runner-tracker (src/js/app.js): the App         *)
(* component's run state machine, wall-clock timer, GPS watch callback     *)
(* with its two filters, milestone announcements and pace smoothing.       *)
(*                                                                         *)
(* Units: distances in whole metres, times in milliseconds (Date.now()),   *)
(* elapsedTime in whole seconds as in the source.  Positions lie on one    *)
(* meridian and are given as metres of arc along it, so that the           *)
(* haversine formula reduces to the absolute difference.  Paces are kept   *)
(* as whole seconds per km (floor of the source's floating-point value).   *)
(*                                                                         *)
(* React semantics modelled: a callback registered by startGPSTracking     *)
(* keeps the closure of the render in which it was registered (the values  *)
(* of totalDistance, elapsedTime and goalPaceSeconds of that render),      *)
(* while refs and functional state updaters see current values.  Button    *)
(* handlers always come from the latest render.  Every state change is     *)
(* followed by a render, and each render calls getCurrentPace().           *)
(* clearWatch and clearInterval take effect at once: a cleared callback is *)
(* not called again.  An interval callback may run late: any time at or   *)
(* after the instant it is due.                                           *)
(*                                                                         *)
(* The state updates of a watch or interval callback are enqueued by the  *)
(* callback and applied by the render React schedules for them; the       *)
(* updater passed to setGpsPoints, with the distance and announcement     *)
(* logic nested in it, runs in that render.  GpsFixAt and TimerTick take  *)
(* callback and render as one step (the render follows at once).          *)
(* SpecFlight takes them as two steps, FixCallback or TickCallback and    *)
(* then RenderPending, and lets one click of Pause or Finish be handled   *)
(* in between: the root is created with ReactDOM.createRoot, under which  *)
(* updates from a callback outside React's event system are rendered in a *)
(* later task, whereas a click is rendered before its handler's task ends.*)
(*                                                                         *)
(* Three specifications share the actions: Spec explores fix histories    *)
(* with a clock that moves in whole seconds, SpecTimer explores the timer *)
(* with a clock that moves in half seconds and a short fix history,       *)
(* SpecLong lets about half a minute pass in one step, so that paces near *)
(* the goal pace occur.  SpecPace applies the pace estimator, as a pure   *)
(* function of totalDistance, elapsedTime and the window, to inputs drawn *)
(* from small sets.  SpecSummary follows a short session to its summary   *)
(* and the Save button; SpecStore has the Save button, the history view   *)
(* with its Delete buttons and the faults of the browser store, over      *)
(* sessions that receive no fix.  SpecSetup has the fields of the setup   *)
(* form, with texts typed into them.  SpecWake has the keep-awake switch  *)
(* and the wake-lock requests it makes, which the host settles later; it  *)
(* alone also starts on hosts without a wake lock.                        *)
(***************************************************************************)
EXTENDS Integers, Naturals, Sequences, FiniteSets, TLC

\* ---------------------------------------------------------------- constants
MAX_GPS_ACCURACY_METERS == 30
MIN_DISTANCE_THRESHOLD_METERS == 3
PACE_SMOOTHING_WINDOW == 5
VOICE_ANNOUNCEMENT_INTERVAL_METERS == 500
TimerIntervalMs == 1000

\* ------------------------------------------------------------------- bounds
\* specification Spec: distance and announcement pipeline, coarse clock
MaxNow == 1000
MaxFixes == 3
\* specification SpecTimer: timer arithmetic, fine clock, short fix history
TimerMaxNow == 2500
TimerMaxFixes == 2
\* specification SpecLong: announcements at paces near the goal pace
LongMaxNow == 31000
LongMaxFixes == 3
\* specification SpecSummary: a session with its summary and the Save button
SummaryMaxNow == 1000
SummaryMaxFixes == 2
SummaryMaxHistory == 1
\* specification SpecStore: save, history view, delete and store faults
StoreMaxNow == 1000
MaxHistory == 2
\* cap on the accumulated distance (metres), all of them
MaxDistance == 1700
\* specification SpecFlight: a click may overtake the render of a callback
FlightMaxNow == 2000
FlightMaxFixes == 2
\* specification SpecWake: wake-lock requests issued in one behaviour
MaxLockRequests == 3
\* specification SpecSetup: longest text typed into a field of the setup form
MaxTextLen == 2

\* null and non-null values of a ref or state cell
NULL == <<>>
Some(v) == <<v>>
Val(o) == o[1]

\* wall-clock increments between two events (ms)
ClockSteps == {1000}
TimerClockSteps == {500, 1000}
LongClockSteps == {24000, 29000, 30000, 31000}
\* positions a fix can report (metres of arc along the meridian)
Positions == {0, 2, 5, 505, 1600}
TimerPositions == {0, 505}
LongPositions == {0, 100, 600}
SummaryPositions == {0, 507}
\* accuracies a fix can report (metres)
Accuracies == {30, 31}
\* setup-form results handed to handleStartFromSetup: <<goal pace s/km, target m>>
Configs == {<<300, 5000>>, <<240, 10000>>}
\* values of totalDistance (m) and elapsedTime (s) handed to the pace estimator
PaceDistances == {0, 5, 9, 10, 15}
PaceTimes == {0, 1, 100}
\* text of the notes field of SummaryView
Notes == {"", "hilly"}
\* what can be wrong with the browser store: nothing, every access throws,
\* or only writes throw (quota)
StorageFaults == {"none", "unavailable", "quota"}
\* geolocation error codes
ErrorCodes == {1, 2, 3}
\* characters typed into a field of the setup form, and the texts
\* (e.target.value) they make
Chars == {"0", "7", "-", ".", "x"}
Texts == UNION {[1..n -> Chars] : n \in 0..MaxTextLen}

VARIABLES
    runState,                     \* useState('idle')
    goalPaceSeconds,              \* useState(5 * 60)
    targetDistance,               \* useState(5.0), here in metres
    gpsPoints,                    \* useState([])
    totalDistance,                \* useState(0), metres
    gpsStatus,                    \* useState('Not started')
    watchIdRef,                   \* useRef(null)
    elapsedTime,                  \* useState(0), seconds
    timerRef,                     \* useRef(null)
    startTimeRef,                 \* useRef(null)
    pausedTimeRef,                \* useRef(0)
    paceWindowRef,                \* useRef([])
    lastAnnouncementDistanceRef,  \* useRef(0)
    currentRunData,               \* useState(null)
    view,                         \* useState('tracker')
    saved,                        \* SummaryView: useState(false)
    history,                      \* RunHistory: useState(loadRunHistory())
    localStorage,                 \* browser store: what is kept under STORAGE_KEY
    storageFault,                 \* browser store: how its accesses currently fail
    goalMinutes,                  \* RunSetup: useState(5)
    goalSeconds,                  \* RunSetup: useState(0)
    setupTargetDistance,          \* RunSetup: useState(5.0), here in metres
    keepAwake,                    \* useState(false)
    wakeLockSupported,            \* useState(true), after the mount effect
    wakeLockRef,                  \* useRef(null)
    wakeLockRequests,             \* host: navigator.wakeLock.request() calls not yet settled
    wakeLocks,                    \* host: wake locks held by the page
    wakeLockCount,                \* host: number of requests made so far
    pendingUpdates,               \* React: state updates a callback enqueued that no
                                  \*   render has applied yet
    currentPace,                  \* const currentPace = getCurrentPace() of the last render
    now,                          \* Date.now()
    geoSupported,                 \* navigator.geolocation present
    geoWatches,                   \* location service: active watchPosition subscriptions
    intervals,                    \* host timers: active setInterval registrations
    activeMs,                     \* observer: wall-clock ms spent in 'running' this session
    pausedMs,                     \* observer: wall-clock ms spent in 'paused' this session
    resumed,                      \* observer: the session has been resumed at least once
    pausedCleanly,                \* observer: every pause so far was pressed when the
                                  \*   displayed elapsedTime equalled the time spent running
    awaitingFirstFix,             \* observer: no fix passed the accuracy gate since start/resume
    lastEvent                     \* observer: what the last handler did

vars == <<runState, goalPaceSeconds, targetDistance, gpsPoints, totalDistance,
          gpsStatus, watchIdRef, elapsedTime, timerRef, startTimeRef,
          pausedTimeRef, paceWindowRef, lastAnnouncementDistanceRef,
          currentRunData, view, saved, history, localStorage, storageFault,
          goalMinutes, goalSeconds, setupTargetDistance,
          keepAwake, wakeLockSupported, wakeLockRef, wakeLockRequests,
          wakeLocks, wakeLockCount,
          pendingUpdates, currentPace, now, geoSupported, geoWatches, intervals,
          activeMs, pausedMs, resumed, pausedCleanly,
          awaitingFirstFix, lastEvent>>

\* ------------------------------------------------------------ pure helpers
Abs(x) == IF x < 0 THEN -x ELSE x

\* haversineDistance restricted to two points of one meridian
haversineDistance(lat1, lat2) == Abs(lat2 - lat1)

RECURSIVE SumSeq(_)
SumSeq(s) == IF s = <<>> THEN 0 ELSE Head(s) + SumSeq(Tail(s))

\* smallest positive handle not in use
FreshId(used) == CHOOSE i \in 1..(Cardinality(used) + 1) :
                    /\ i \notin used
                    /\ \A j \in 1..(i - 1) : j \in used

\* ------------------------------------------------------------ pace estimator
\* the "not enough data" test with <= 10 m in place of < 10 m
PaceAvailable_atMostTen(td, et) == ~(td <= 10 \/ et < 1)

\* getCurrentPace: the "not enough data" test
PaceAvailable(td, et) == ~(td < 10 \/ et < 1)

\* getCurrentPace: elapsedTime / distanceKm
InstantPace(td, et) == (et * 1000) \div td

\* the push without the shift: the window is never trimmed
PushPace_noShift(w, p) == Append(w, p)

\* getCurrentPace: push, then shift once the window is longer than 5
PushPace(w, p) ==
    LET pushed == Append(w, p)
    IN  IF Len(pushed) > PACE_SMOOTHING_WINDOW THEN Tail(pushed) ELSE pushed

\* getCurrentPace: the window it leaves behind
getCurrentPaceWindow(td, et, w) ==
    IF PaceAvailable(td, et) THEN PushPace(w, InstantPace(td, et)) ELSE w

\* getCurrentPace: the value it returns
getCurrentPace(td, et, w) ==
    IF PaceAvailable(td, et)
    THEN LET nw == getCurrentPaceWindow(td, et, w) IN Some(SumSeq(nw) \div Len(nw))
    ELSE NULL

\* the component body run by a render: const currentPace = getCurrentPace()
Render(changed, td, et, w) ==
    IF changed THEN getCurrentPaceWindow(td, et, w) ELSE w

\* the value of currentPace a render leaves on screen (cur: the value shown before)
RenderPace(changed, td, et, w, cur) ==
    IF changed THEN getCurrentPace(td, et, w) ELSE cur

\* formatPace: minutes and seconds, or the dash placeholder
formatPace(p) == IF p <= 0 THEN <<"-", "-">> ELSE <<p \div 60, p % 60>>

\* the message choice with <= 0 in place of < 0 for the "on pace" tier
Tier_onPaceIncludesZero(paceDiff) ==
    IF paceDiff < -10 THEN "well ahead of pace"
    ELSE IF paceDiff <= 0 THEN "on pace"
    ELSE IF paceDiff < 10 THEN "slightly behind"
    ELSE "pick up the pace"

\* makeVoiceAnnouncement: the motivational message chosen from paceDiff
Tier(paceDiff) ==
    IF paceDiff < -10 THEN "well ahead of pace"
    ELSE IF paceDiff < 0 THEN "on pace"
    ELSE IF paceDiff < 10 THEN "slightly behind"
    ELSE "pick up the pace"

\* makeVoiceAnnouncement without the early return on a null pace: null is
\* then used as 0 by the arithmetic and shown as the dash placeholder
makeVoiceAnnouncement_noNullReturn(distanceMeters, cl, w) ==
    LET pace == getCurrentPace(cl.totalDistance, cl.elapsedTime, w)
        p == IF pace = NULL THEN 0 ELSE Val(pace)
    IN  [text |-> Some([km10 |-> (distanceMeters + 50) \div 100,
                        pace |-> formatPace(p),
                        tier |-> Tier(p - cl.goalPaceSeconds)]),
         currentPace |-> pace,
         window |-> getCurrentPaceWindow(cl.totalDistance, cl.elapsedTime, w)]

\* makeVoiceAnnouncement as run by a watch callback: cl is the closure of the
\* render that registered the watch, w the current pace window.
\* Result: the text spoken (NULL if it returns early), the pace it read and
\* the window left.
makeVoiceAnnouncement(distanceMeters, cl, w) ==
    LET pace == getCurrentPace(cl.totalDistance, cl.elapsedTime, w)
    IN  IF pace = NULL
        THEN [text |-> NULL, currentPace |-> NULL, window |-> w]
        ELSE [text |-> Some([km10 |-> (distanceMeters + 50) \div 100,
                             pace |-> formatPace(Val(pace)),
                             tier |-> Tier(Val(pace) - cl.goalPaceSeconds)]),
              currentPace |-> pace,
              window |-> getCurrentPaceWindow(cl.totalDistance, cl.elapsedTime, w)]

\* Filter 1 with the limit of 20 m that the README gives
AccuracyGate_limitTwenty(acc) == ~(acc > 20)

\* Filter 1 written with >= in place of >: a fix exactly at the limit is dropped
AccuracyGate_dropsLimit(acc) == ~(acc >= MAX_GPS_ACCURACY_METERS)

\* Filter 1 of the watch callback: the fix is not "worse than" the limit
AccuracyGate(acc) == ~(acc > MAX_GPS_ACCURACY_METERS)

\* Filter 2 with the threshold of 5 m that the README gives
JitterGate_thresholdFive(distanceIncrement) == distanceIncrement >= 5

\* Filter 2 written with > in place of >=: an increment exactly at the
\* threshold is not credited
JitterGate_strict(distanceIncrement) == distanceIncrement > MIN_DISTANCE_THRESHOLD_METERS

\* Filter 2 of the watch callback: the increment is credited
JitterGate(distanceIncrement) == distanceIncrement >= MIN_DISTANCE_THRESHOLD_METERS

\* the marker set to the boundary that was crossed, not to the new total
announcedDistance_boundary(newDistance) ==
    (newDistance \div VOICE_ANNOUNCEMENT_INTERVAL_METERS)
        * VOICE_ANNOUNCEMENT_INTERVAL_METERS

\* lastAnnouncementDistanceRef.current = newDistance, after an announcement
announcedDistance(newDistance) == newDistance

\* milestone test that counts whole kilometres, not intervals of 500 m
MilestoneCrossed_everyKm(newDistance, lastAnnounced) ==
    newDistance \div 1000 > lastAnnounced \div 1000

\* milestone test written with >= in place of >
MilestoneCrossed_ge(newDistance, lastAnnounced) ==
    (newDistance \div VOICE_ANNOUNCEMENT_INTERVAL_METERS)
        >= (lastAnnounced \div VOICE_ANNOUNCEMENT_INTERVAL_METERS)

\* milestone test of the watch callback
MilestoneCrossed(newDistance, lastAnnounced) ==
    (newDistance \div VOICE_ANNOUNCEMENT_INTERVAL_METERS)
        > (lastAnnounced \div VOICE_ANNOUNCEMENT_INTERVAL_METERS)

\* ------------------------------------------------------- history store
\* what localStorage holds under STORAGE_KEY: nothing, the JSON text of an
\* array of runs, or text that JSON.parse rejects
StoredAbsent == [kind |-> "absent", runs |-> <<>>]
StoredArray(runs) == [kind |-> "array", runs |-> runs]
StoredGarbage == [kind |-> "garbage", runs |-> <<>>]

\* loadRunHistory: [] when getItem throws, when nothing is stored and when
\* JSON.parse throws
loadRunHistory(st, fault) ==
    IF fault = "unavailable" THEN <<>>
    ELSE IF st.kind = "array" THEN st.runs
    ELSE <<>>

\* localStorage.setItem(STORAGE_KEY, JSON.stringify(runs)) inside try/catch:
\* the store afterwards
setItem(st, fault, runs) == IF fault = "none" THEN StoredArray(runs) ELSE st

\* saveRun with push in place of unshift
saveRun_appends(runData, st, fault) ==
    setItem(st, fault, Append(loadRunHistory(st, fault), runData))

\* saveRun: the store afterwards
saveRun(runData, st, fault) ==
    setItem(st, fault, <<runData>> \o loadRunHistory(st, fault))

\* deleteRun with === in place of !== in the filter
deleteRun_keepsMatch(runId, st, fault) ==
    setItem(st, fault,
            SelectSeq(loadRunHistory(st, fault), LAMBDA run : run.id = runId))

\* deleteRun: the store afterwards
deleteRun(runId, st, fault) ==
    setItem(st, fault,
            SelectSeq(loadRunHistory(st, fault), LAMBDA run : run.id # runId))

\* ------------------------------------------------------- setup-form input
Max(a, b) == IF a > b THEN a ELSE b
Min(a, b) == IF a < b THEN a ELSE b

IsDigit(c) == c \in {"0", "1", "2", "3", "4", "5", "6", "7", "8", "9"}
DigitValue(c) == CHOOSE d \in 0..9 : ToString(d) = c

\* number of consecutive digits of text s from index i on
RECURSIVE DigitRun(_, _)
DigitRun(s, i) ==
    IF i <= Len(s) /\ IsDigit(s[i]) THEN 1 + DigitRun(s, i + 1) ELSE 0

\* value of the n digits of s that start at index i
RECURSIVE DigitsValue(_, _, _)
DigitsValue(s, i, n) ==
    IF n = 0 THEN 0
    ELSE 10 * DigitsValue(s, i, n - 1) + DigitValue(s[i + n - 1])

Pow10(k) == IF k <= 0 THEN 1 ELSE IF k = 1 THEN 10 ELSE 100

\* parseInt(text): optional sign, then the longest run of digits; NULL is NaN
parseInt(s) ==
    LET signed == Len(s) > 0 /\ s[1] \in {"-", "+"}
        from == IF signed THEN 2 ELSE 1
        n == DigitRun(s, from)
        sign == IF signed /\ s[1] = "-" THEN -1 ELSE 1
    IN  IF n = 0 THEN NULL ELSE Some(sign * DigitsValue(s, from, n))

\* parseFloat(text) in thousandths: optional sign, digits, optional point and
\* digits (the first three of them count); NULL is NaN
parseFloat(s) ==
    LET signed == Len(s) > 0 /\ s[1] \in {"-", "+"}
        from == IF signed THEN 2 ELSE 1
        n == DigitRun(s, from)
        point == from + n <= Len(s) /\ s[from + n] = "."
        m == IF point THEN DigitRun(s, from + n + 1) ELSE 0
        k == Min(m, 3)
        sign == IF signed /\ s[1] = "-" THEN -1 ELSE 1
    IN  IF n = 0 /\ m = 0 THEN NULL
        ELSE Some(sign * (1000 * DigitsValue(s, from, n)
                          + DigitsValue(s, from + n + 1, k) * Pow10(3 - k)))

\* JavaScript's  x || d  for a number x: d when x is NaN or 0
OrElse(x, d) == IF x = NULL \/ Val(x) = 0 THEN d ELSE Val(x)

\* ------------------------------------------------------------------ events
\* observer value left by every handler other than the watch success callback
NoFix == [kind |-> "other", accuracy |-> 0, increment |-> -1,
          first |-> FALSE, calls |-> 0, spoke |-> 0, text |-> NULL,
          pace |-> NULL]

\* the state after construction, but for whether the host has a wake lock
InitApp ==
    /\ runState = "idle"
    /\ goalPaceSeconds = 300
    /\ targetDistance = 5000
    /\ gpsPoints = <<>>
    /\ totalDistance = 0
    /\ gpsStatus = <<"Not started">>
    /\ watchIdRef = NULL
    /\ elapsedTime = 0
    /\ timerRef = NULL
    /\ startTimeRef = NULL
    /\ pausedTimeRef = 0
    /\ paceWindowRef = <<>>
    /\ lastAnnouncementDistanceRef = 0
    /\ currentRunData = NULL
    /\ view = "tracker"
    /\ saved = FALSE
    /\ history = <<>>
    /\ localStorage = StoredAbsent
    /\ storageFault = "none"
    /\ goalMinutes = 5
    /\ goalSeconds = 0
    /\ setupTargetDistance = 5000
    /\ pendingUpdates = NULL
    /\ currentPace = NULL
    /\ now = 0
    /\ geoSupported \in BOOLEAN
    /\ geoWatches = {}
    /\ intervals = {}
    /\ activeMs = 0
    /\ pausedMs = 0
    /\ resumed = FALSE
    /\ pausedCleanly = TRUE
    /\ awaitingFirstFix = FALSE
    /\ lastEvent = NoFix
    /\ keepAwake = FALSE
    /\ wakeLockRef = NULL
    /\ wakeLockRequests = {}
    /\ wakeLocks = {}
    /\ wakeLockCount = 0

\* on a host with a wake lock: the mount effect leaves wakeLockSupported set
Init == InitApp /\ wakeLockSupported = TRUE

\* on any host: the mount effect has cleared wakeLockSupported where
\* navigator has no wakeLock
InitWake == InitApp /\ wakeLockSupported \in BOOLEAN

\* time passes between two callbacks
ClockAdvanceBy(steps, maxNow) ==
    \E dt \in steps :
        /\ now + dt <= maxNow
        /\ now' = now + dt
        /\ activeMs' = IF runState = "running" THEN activeMs + dt ELSE activeMs
        /\ pausedMs' = IF runState = "paused" THEN pausedMs + dt ELSE pausedMs
        /\ lastEvent' = NoFix
        /\ UNCHANGED <<runState, goalPaceSeconds, targetDistance, gpsPoints,
                       totalDistance, gpsStatus, watchIdRef, elapsedTime,
                       timerRef, startTimeRef, pausedTimeRef, paceWindowRef,
                       lastAnnouncementDistanceRef, currentRunData, view,
                       saved, history, localStorage, storageFault,
                       goalMinutes, goalSeconds, setupTargetDistance,
                       keepAwake, wakeLockSupported, wakeLockRef,
                       wakeLockRequests, wakeLocks, wakeLockCount,
                       pendingUpdates, currentPace, geoSupported, geoWatches,
                       intervals, resumed, pausedCleanly, awaitingFirstFix>>

\* the setInterval callback written as a counter: one second more per tick
TimerTick_addsOne ==
    \E t \in intervals :
        /\ now >= t.due
        /\ LET elapsed == elapsedTime + 1
           IN  /\ elapsedTime' = elapsed
               /\ paceWindowRef' = Render(elapsed # elapsedTime, totalDistance,
                                          elapsed, paceWindowRef)
               /\ currentPace' = RenderPace(elapsed # elapsedTime, totalDistance, elapsed, paceWindowRef, currentPace)
        /\ intervals' = (intervals \ {t})
                            \cup {[id |-> t.id, due |-> now + TimerIntervalMs]}
        /\ lastEvent' = [kind |-> "tick", before |-> elapsedTime]
        /\ UNCHANGED <<runState, goalPaceSeconds, targetDistance, gpsPoints,
                       totalDistance, gpsStatus, watchIdRef, timerRef,
                       startTimeRef, pausedTimeRef,
                       lastAnnouncementDistanceRef, currentRunData, view,
                       saved, history, localStorage, storageFault,
                       goalMinutes, goalSeconds, setupTargetDistance,
                       keepAwake, wakeLockSupported, wakeLockRef,
                       wakeLockRequests, wakeLocks, wakeLockCount,
                       pendingUpdates, now, geoSupported, geoWatches,
                       activeMs, pausedMs, resumed, pausedCleanly,
                       awaitingFirstFix>>

\* the setInterval callback of startTimer
TimerTick ==
    \E t \in intervals :
        /\ now >= t.due
        /\ LET elapsed == (now - Val(startTimeRef)) \div 1000
           IN  /\ elapsedTime' = elapsed
               /\ paceWindowRef' = Render(elapsed # elapsedTime, totalDistance,
                                          elapsed, paceWindowRef)
               /\ currentPace' = RenderPace(elapsed # elapsedTime, totalDistance, elapsed, paceWindowRef, currentPace)
        /\ intervals' = (intervals \ {t})
                            \cup {[id |-> t.id, due |-> now + TimerIntervalMs]}
        /\ lastEvent' = [kind |-> "tick", before |-> elapsedTime]
        /\ UNCHANGED <<runState, goalPaceSeconds, targetDistance, gpsPoints,
                       totalDistance, gpsStatus, watchIdRef, timerRef,
                       startTimeRef, pausedTimeRef,
                       lastAnnouncementDistanceRef, currentRunData, view,
                       saved, history, localStorage, storageFault,
                       goalMinutes, goalSeconds, setupTargetDistance,
                       keepAwake, wakeLockSupported, wakeLockRef,
                       wakeLockRequests, wakeLocks, wakeLockCount,
                       pendingUpdates, now, geoSupported, geoWatches,
                       activeMs, pausedMs, resumed, pausedCleanly,
                       awaitingFirstFix>>

\* the state updates of the setInterval callback, applied by a render:
\* setElapsedTime(elapsed)
applyTick(elapsed, pending) ==
    /\ elapsedTime' = elapsed
    /\ paceWindowRef' = Render(elapsed # elapsedTime, totalDistance,
                               elapsed, paceWindowRef)
    /\ currentPace' = RenderPace(elapsed # elapsedTime, totalDistance, elapsed, paceWindowRef, currentPace)
    /\ pendingUpdates' = pending
    /\ lastEvent' = NoFix
    /\ UNCHANGED <<runState, goalPaceSeconds, targetDistance, gpsPoints,
                   totalDistance, gpsStatus, watchIdRef, timerRef,
                   startTimeRef, pausedTimeRef, lastAnnouncementDistanceRef,
                   currentRunData, view, saved, history, localStorage,
                   storageFault, goalMinutes, goalSeconds,
                   setupTargetDistance, keepAwake, wakeLockSupported,
                   wakeLockRef, wakeLockRequests, wakeLocks, wakeLockCount,
                   now, geoSupported, geoWatches, intervals, activeMs,
                   pausedMs, resumed, pausedCleanly, awaitingFirstFix>>

\* the state updates of the watchPosition success callback registered as w,
\* for a fix at position lat with accuracy acc, applied by a render:
\* setGpsStatus, and the setGpsPoints updater with setTotalDistance nested
applyFix(w, lat, acc, maxFixes, pending) ==
      LET status == <<"Tracking", acc>>
          passes == AccuracyGate(acc)
          hasPrev == Len(gpsPoints) > 0
          distanceIncrement ==
              IF hasPrev
              THEN haversineDistance(gpsPoints[Len(gpsPoints)].lat, lat)
              ELSE -1
          credited == passes /\ hasPrev /\ JitterGate(distanceIncrement)
          newDistance == IF credited THEN totalDistance + distanceIncrement
                                     ELSE totalDistance
          triggered == credited
                        /\ MilestoneCrossed(newDistance, lastAnnouncementDistanceRef)
          ann == IF triggered
                 THEN makeVoiceAnnouncement(newDistance, w, paceWindowRef)
                 ELSE [text |-> NULL, currentPace |-> NULL, window |-> paceWindowRef]
      IN  /\ passes => Len(gpsPoints) < maxFixes
          /\ newDistance <= MaxDistance
          /\ gpsStatus' = status
          /\ gpsPoints' = IF passes
                          THEN Append(gpsPoints, [lat |-> lat, accuracy |-> acc])
                          ELSE gpsPoints
          /\ totalDistance' = newDistance
          /\ lastAnnouncementDistanceRef' =
                 IF triggered THEN announcedDistance(newDistance)
                              ELSE lastAnnouncementDistanceRef
          /\ paceWindowRef' = Render(passes \/ status # gpsStatus, newDistance,
                                     elapsedTime, ann.window)
          /\ currentPace' = RenderPace(passes \/ status # gpsStatus, newDistance, elapsedTime, ann.window, currentPace)
          /\ awaitingFirstFix' = (awaitingFirstFix /\ ~passes)
          /\ lastEvent' = [kind |-> "fix", accuracy |-> acc,
                           increment |-> IF passes THEN distanceIncrement ELSE -1,
                           first |-> awaitingFirstFix /\ passes,
                           calls |-> IF triggered THEN 1 ELSE 0,
                           spoke |-> IF ann.text # NULL THEN 1 ELSE 0,
                           text |-> ann.text, pace |-> ann.currentPace]
          /\ pendingUpdates' = pending
          /\ UNCHANGED <<runState, goalPaceSeconds, targetDistance,
                         watchIdRef, elapsedTime, timerRef, startTimeRef,
                         pausedTimeRef, currentRunData, view, saved, history,
                         localStorage, storageFault, goalMinutes, goalSeconds,
                         setupTargetDistance, keepAwake, wakeLockSupported,
                         wakeLockRef, wakeLockRequests, wakeLocks,
                         wakeLockCount, now, geoSupported, geoWatches,
                         intervals, activeMs, pausedMs, resumed, pausedCleanly>>

\* the watchPosition success callback of startGPSTracking, delivered to an
\* active subscription w with a fix at position lat and accuracy acc, and
\* the render of its updates
GpsFixAt(positions, maxFixes) ==
    \E w \in geoWatches, lat \in positions, acc \in Accuracies :
        applyFix(w, lat, acc, maxFixes, pendingUpdates)

\* the watchPosition success callback alone: its updates wait for a render
FixCallback(positions) ==
    \E w \in geoWatches, lat \in positions, acc \in Accuracies :
        /\ pendingUpdates = NULL
        /\ pendingUpdates' = Some([kind |-> "fix", w |-> w, lat |-> lat,
                                   accuracy |-> acc])
        /\ lastEvent' = NoFix
        /\ UNCHANGED <<runState, goalPaceSeconds, targetDistance, gpsPoints,
                       totalDistance, gpsStatus, watchIdRef, elapsedTime,
                       timerRef, startTimeRef, pausedTimeRef, paceWindowRef,
                       lastAnnouncementDistanceRef, currentRunData, view,
                       saved, history, localStorage, storageFault,
                       goalMinutes, goalSeconds, setupTargetDistance,
                       keepAwake, wakeLockSupported, wakeLockRef,
                       wakeLockRequests, wakeLocks, wakeLockCount,
                       currentPace, now, geoSupported, geoWatches, intervals,
                       activeMs, pausedMs, resumed, pausedCleanly,
                       awaitingFirstFix>>

\* the setInterval callback alone: it reads the clock, and its update waits
\* for a render
TickCallback ==
    \E t \in intervals :
        /\ now >= t.due
        /\ pendingUpdates = NULL
        /\ pendingUpdates' =
               Some([kind |-> "tick",
                     elapsed |-> (now - Val(startTimeRef)) \div 1000])
        /\ intervals' = (intervals \ {t})
                            \cup {[id |-> t.id, due |-> now + TimerIntervalMs]}
        /\ lastEvent' = NoFix
        /\ UNCHANGED <<runState, goalPaceSeconds, targetDistance, gpsPoints,
                       totalDistance, gpsStatus, watchIdRef, elapsedTime,
                       timerRef, startTimeRef, pausedTimeRef, paceWindowRef,
                       lastAnnouncementDistanceRef, currentRunData, view,
                       saved, history, localStorage, storageFault,
                       goalMinutes, goalSeconds, setupTargetDistance,
                       keepAwake, wakeLockSupported, wakeLockRef,
                       wakeLockRequests, wakeLocks, wakeLockCount,
                       currentPace, now, geoSupported, geoWatches, activeMs,
                       pausedMs, resumed, pausedCleanly, awaitingFirstFix>>

\* the render React scheduled for the updates of a callback
RenderPending(maxFixes) ==
    /\ pendingUpdates # NULL
    /\ LET p == Val(pendingUpdates)
       IN  IF p.kind = "fix"
           THEN applyFix(p.w, p.lat, p.accuracy, maxFixes, NULL)
           ELSE applyTick(p.elapsed, NULL)

\* the watchPosition error callback of startGPSTracking
GpsError ==
    \E w \in geoWatches, code \in ErrorCodes :
      LET status == IF code = 1 THEN <<"Permission denied">>
                    ELSE IF code = 2 THEN <<"Position unavailable">>
                    ELSE <<"Timeout">>
      IN  /\ gpsStatus' = status
          /\ paceWindowRef' = Render(status # gpsStatus, totalDistance,
                                     elapsedTime, paceWindowRef)
          /\ currentPace' = RenderPace(status # gpsStatus, totalDistance, elapsedTime, paceWindowRef, currentPace)
          /\ lastEvent' = [kind |-> "error", code |-> code]
          /\ UNCHANGED <<runState, goalPaceSeconds, targetDistance, gpsPoints,
                         totalDistance, watchIdRef, elapsedTime, timerRef,
                         startTimeRef, pausedTimeRef,
                         lastAnnouncementDistanceRef, currentRunData, view,
                         saved, history, localStorage, storageFault,
                         goalMinutes, goalSeconds, setupTargetDistance,
                         keepAwake, wakeLockSupported, wakeLockRef,
                         wakeLockRequests, wakeLocks, wakeLockCount,
                         pendingUpdates, now, geoSupported, geoWatches,
                         intervals, activeMs, pausedMs, resumed,
                         pausedCleanly, awaitingFirstFix>>

\* ------------------------------------------------- GPS and timer start/stop
\* startGPSTracking without the navigator.geolocation test: it subscribes
\* whether or not the host has a location service
startGPSTracking_noSupportTest ==
    LET id == FreshId({x.id : x \in geoWatches})
    IN  [status |-> <<"Acquiring GPS...">>,
         watches |-> geoWatches \cup
             {[id |-> id, totalDistance |-> totalDistance,
               elapsedTime |-> elapsedTime,
               goalPaceSeconds |-> goalPaceSeconds]},
         ref |-> Some(id)]

\* startGPSTracking: the status, subscriptions and handle it leaves; the
\* callbacks it registers close over the state of the calling render
startGPSTracking ==
    IF ~geoSupported
    THEN [status |-> <<"GPS not supported">>, watches |-> geoWatches,
          ref |-> watchIdRef]
    ELSE LET id == FreshId({x.id : x \in geoWatches})
         IN  [status |-> <<"Acquiring GPS...">>,
              watches |-> geoWatches \cup
                  {[id |-> id, totalDistance |-> totalDistance,
                    elapsedTime |-> elapsedTime,
                    goalPaceSeconds |-> goalPaceSeconds]},
              ref |-> Some(id)]

\* stopGPSTracking without the clearWatch call: the subscription stays active
stopGPSTracking_noClearWatch == geoWatches

\* stopGPSTracking: the subscriptions it leaves (the handle becomes null)
stopGPSTracking ==
    IF watchIdRef # NULL
    THEN {x \in geoWatches : x.id # Val(watchIdRef)}
    ELSE geoWatches

\* startTimer with startTimeRef.current = Date.now(), the frozen value ignored
startTimer_fromNow ==
    LET id == FreshId({x.id : x \in intervals})
    IN  [start |-> Some(now),
         timers |-> intervals \cup {[id |-> id, due |-> now + TimerIntervalMs]},
         ref |-> Some(id)]

\* startTimer: the reference instant, registrations and handle it leaves
startTimer ==
    LET id == FreshId({x.id : x \in intervals})
    IN  [start |-> Some(now - pausedTimeRef * 1000),
         timers |-> intervals \cup {[id |-> id, due |-> now + TimerIntervalMs]},
         ref |-> Some(id)]

\* pauseTimer and resetTimer: clearInterval(timerRef.current)
clearTimer ==
    IF timerRef # NULL
    THEN {x \in intervals : x.id # Val(timerRef)}
    ELSE intervals

\* pauseTimer: the value frozen into pausedTimeRef
pauseTimer == elapsedTime

\* ---------------------------------------------------- run control handlers
\* "Start New Run" button, rendered while idle
handleSetupRun ==
    /\ runState = "idle"
    /\ runState' = "setup"
    /\ goalMinutes' = 5
    /\ goalSeconds' = 0
    /\ setupTargetDistance' = 5000
    /\ paceWindowRef' = Render(TRUE, totalDistance, elapsedTime, paceWindowRef)
    /\ currentPace' = RenderPace(TRUE, totalDistance, elapsedTime, paceWindowRef, currentPace)
    /\ lastEvent' = NoFix
    /\ UNCHANGED <<goalPaceSeconds, targetDistance, gpsPoints, totalDistance,
                   gpsStatus, watchIdRef, elapsedTime, timerRef, startTimeRef,
                   pausedTimeRef, lastAnnouncementDistanceRef, currentRunData,
                   view, saved, history, localStorage, storageFault,
                   keepAwake, wakeLockSupported, wakeLockRef,
                   wakeLockRequests, wakeLocks, wakeLockCount, pendingUpdates,
                   now, geoSupported, geoWatches, intervals, activeMs,
                   pausedMs, resumed, pausedCleanly, awaitingFirstFix>>

\* "Cancel" button of RunSetup, rendered while in setup
handleCancelSetup ==
    /\ runState = "setup"
    /\ runState' = "idle"
    /\ paceWindowRef' = Render(TRUE, totalDistance, elapsedTime, paceWindowRef)
    /\ currentPace' = RenderPace(TRUE, totalDistance, elapsedTime, paceWindowRef, currentPace)
    /\ lastEvent' = NoFix
    /\ UNCHANGED <<goalPaceSeconds, targetDistance, gpsPoints, totalDistance,
                   gpsStatus, watchIdRef, elapsedTime, timerRef, startTimeRef,
                   pausedTimeRef, lastAnnouncementDistanceRef, currentRunData,
                   view, saved, history, localStorage, storageFault,
                   goalMinutes, goalSeconds, setupTargetDistance, keepAwake,
                   wakeLockSupported, wakeLockRef, wakeLockRequests,
                   wakeLocks, wakeLockCount, pendingUpdates, now,
                   geoSupported, geoWatches, intervals, activeMs, pausedMs,
                   resumed, pausedCleanly, awaitingFirstFix>>

\* handleStartFromSetup(goalPace, distance), the onStart prop of RunSetup
onStart(goalPace, distance) ==
    /\ runState = "setup"
    /\ goalPaceSeconds' = goalPace
    /\ targetDistance' = distance
    /\ runState' = "running"
    /\ gpsStatus' = startGPSTracking.status
    /\ geoWatches' = startGPSTracking.watches
    /\ watchIdRef' = startGPSTracking.ref
    /\ startTimeRef' = startTimer.start
    /\ intervals' = startTimer.timers
    /\ timerRef' = startTimer.ref
    /\ lastAnnouncementDistanceRef' = 0
    /\ paceWindowRef' = Render(TRUE, totalDistance, elapsedTime, paceWindowRef)
    /\ currentPace' = RenderPace(TRUE, totalDistance, elapsedTime, paceWindowRef, currentPace)
    /\ awaitingFirstFix' = TRUE
    /\ lastEvent' = NoFix
    /\ UNCHANGED <<gpsPoints, totalDistance, elapsedTime, pausedTimeRef,
                   currentRunData, view, saved, history, localStorage,
                   storageFault, goalMinutes, goalSeconds,
                   setupTargetDistance, keepAwake, wakeLockSupported,
                   wakeLockRef, wakeLockRequests, wakeLocks, wakeLockCount,
                   pendingUpdates, now, geoSupported, activeMs, pausedMs,
                   resumed, pausedCleanly>>

\* "Start Run" button of RunSetup, rendered while in setup, with the form
\* filled in to one of Configs
handleStartFromSetup ==
    \E cfg \in Configs : onStart(cfg[1], cfg[2])

\* ----------------------------------------------------------- the setup form
\* onChange of the minutes field of RunSetup
onChangeGoalMinutes ==
    \E text \in Texts :
        /\ runState = "setup"
        /\ goalMinutes' = Max(0, OrElse(parseInt(text), 0))
        /\ lastEvent' = NoFix
        /\ UNCHANGED <<runState, goalPaceSeconds, targetDistance, gpsPoints,
                       totalDistance, gpsStatus, watchIdRef, elapsedTime,
                       timerRef, startTimeRef, pausedTimeRef, paceWindowRef,
                       lastAnnouncementDistanceRef, currentRunData, view,
                       saved, history, localStorage, storageFault,
                       goalSeconds, setupTargetDistance, keepAwake,
                       wakeLockSupported, wakeLockRef, wakeLockRequests,
                       wakeLocks, wakeLockCount, pendingUpdates, currentPace,
                       now, geoSupported, geoWatches, intervals, activeMs,
                       pausedMs, resumed, pausedCleanly, awaitingFirstFix>>

\* onChange of the seconds field of RunSetup
onChangeGoalSeconds ==
    \E text \in Texts :
        /\ runState = "setup"
        /\ goalSeconds' = Max(0, Min(59, OrElse(parseInt(text), 0)))
        /\ lastEvent' = NoFix
        /\ UNCHANGED <<runState, goalPaceSeconds, targetDistance, gpsPoints,
                       totalDistance, gpsStatus, watchIdRef, elapsedTime,
                       timerRef, startTimeRef, pausedTimeRef, paceWindowRef,
                       lastAnnouncementDistanceRef, currentRunData, view,
                       saved, history, localStorage, storageFault,
                       goalMinutes, setupTargetDistance, keepAwake,
                       wakeLockSupported, wakeLockRef, wakeLockRequests,
                       wakeLocks, wakeLockCount, pendingUpdates, currentPace,
                       now, geoSupported, geoWatches, intervals, activeMs,
                       pausedMs, resumed, pausedCleanly, awaitingFirstFix>>

\* onChange of the target-distance field of RunSetup
onChangeTargetDistance ==
    \E text \in Texts :
        /\ runState = "setup"
        /\ setupTargetDistance' = Max(100, OrElse(parseFloat(text), 100))
        /\ lastEvent' = NoFix
        /\ UNCHANGED <<runState, goalPaceSeconds, targetDistance, gpsPoints,
                       totalDistance, gpsStatus, watchIdRef, elapsedTime,
                       timerRef, startTimeRef, pausedTimeRef, paceWindowRef,
                       lastAnnouncementDistanceRef, currentRunData, view,
                       saved, history, localStorage, storageFault,
                       goalMinutes, goalSeconds, keepAwake, wakeLockSupported,
                       wakeLockRef, wakeLockRequests, wakeLocks,
                       wakeLockCount, pendingUpdates, currentPace, now,
                       geoSupported, geoWatches, intervals, activeMs,
                       pausedMs, resumed, pausedCleanly, awaitingFirstFix>>

\* RunSetup.handleStart, the "Start Run" button with the form as it stands
handleStart ==
    onStart(goalMinutes * 60 + goalSeconds, setupTargetDistance)

\* handlePause with setRunState('idle') in place of setRunState('paused')
handlePause_toIdle ==
    /\ runState = "running"
    /\ runState' = "idle"
    /\ geoWatches' = stopGPSTracking
    /\ watchIdRef' = NULL
    /\ intervals' = clearTimer
    /\ timerRef' = NULL
    /\ pausedTimeRef' = pauseTimer
    /\ paceWindowRef' = Render(TRUE, totalDistance, elapsedTime, paceWindowRef)
    /\ currentPace' = RenderPace(TRUE, totalDistance, elapsedTime, paceWindowRef, currentPace)
    /\ pausedCleanly' = (pausedCleanly /\ elapsedTime * 1000 = activeMs)
    /\ lastEvent' = NoFix
    /\ UNCHANGED <<goalPaceSeconds, targetDistance, gpsPoints, totalDistance,
                   gpsStatus, elapsedTime, startTimeRef,
                   lastAnnouncementDistanceRef, currentRunData, view, saved,
                   history, localStorage, storageFault, goalMinutes,
                   goalSeconds, setupTargetDistance, keepAwake,
                   wakeLockSupported, wakeLockRef, wakeLockRequests,
                   wakeLocks, wakeLockCount, pendingUpdates, now,
                   geoSupported, activeMs, pausedMs, resumed, awaitingFirstFix>>

\* "Pause" button of Controls, rendered while running
handlePause ==
    /\ runState = "running"
    /\ runState' = "paused"
    /\ geoWatches' = stopGPSTracking
    /\ watchIdRef' = NULL
    /\ intervals' = clearTimer
    /\ timerRef' = NULL
    /\ pausedTimeRef' = pauseTimer
    /\ paceWindowRef' = Render(TRUE, totalDistance, elapsedTime, paceWindowRef)
    /\ currentPace' = RenderPace(TRUE, totalDistance, elapsedTime, paceWindowRef, currentPace)
    /\ pausedCleanly' = (pausedCleanly /\ elapsedTime * 1000 = activeMs)
    /\ lastEvent' = NoFix
    /\ UNCHANGED <<goalPaceSeconds, targetDistance, gpsPoints, totalDistance,
                   gpsStatus, elapsedTime, startTimeRef,
                   lastAnnouncementDistanceRef, currentRunData, view, saved,
                   history, localStorage, storageFault, goalMinutes,
                   goalSeconds, setupTargetDistance, keepAwake,
                   wakeLockSupported, wakeLockRef, wakeLockRequests,
                   wakeLocks, wakeLockCount, pendingUpdates, now,
                   geoSupported, activeMs, pausedMs, resumed, awaitingFirstFix>>

\* handleResume that restarts the clock of the session: resetTimer first
handleResume_resetsTimer ==
    /\ runState = "paused"
    /\ runState' = "running"
    /\ gpsStatus' = startGPSTracking.status
    /\ geoWatches' = startGPSTracking.watches
    /\ watchIdRef' = startGPSTracking.ref
    /\ startTimeRef' = Some(now)
    /\ elapsedTime' = 0
    /\ pausedTimeRef' = 0
    /\ intervals' = startTimer.timers
    /\ timerRef' = startTimer.ref
    /\ paceWindowRef' = Render(TRUE, totalDistance, elapsedTime, paceWindowRef)
    /\ currentPace' = RenderPace(TRUE, totalDistance, elapsedTime, paceWindowRef, currentPace)
    /\ resumed' = TRUE
    /\ awaitingFirstFix' = TRUE
    /\ lastEvent' = NoFix
    /\ UNCHANGED <<goalPaceSeconds, targetDistance, gpsPoints, totalDistance,
                   lastAnnouncementDistanceRef, currentRunData, view, saved,
                   history, localStorage, storageFault, goalMinutes,
                   goalSeconds, setupTargetDistance, keepAwake,
                   wakeLockSupported, wakeLockRef, wakeLockRequests,
                   wakeLocks, wakeLockCount, pendingUpdates, now,
                   geoSupported, activeMs, pausedMs, pausedCleanly>>

\* "Resume" button of Controls, rendered while paused
handleResume ==
    /\ runState = "paused"
    /\ runState' = "running"
    /\ gpsStatus' = startGPSTracking.status
    /\ geoWatches' = startGPSTracking.watches
    /\ watchIdRef' = startGPSTracking.ref
    /\ startTimeRef' = startTimer.start
    /\ intervals' = startTimer.timers
    /\ timerRef' = startTimer.ref
    /\ paceWindowRef' = Render(TRUE, totalDistance, elapsedTime, paceWindowRef)
    /\ currentPace' = RenderPace(TRUE, totalDistance, elapsedTime, paceWindowRef, currentPace)
    /\ resumed' = TRUE
    /\ awaitingFirstFix' = TRUE
    /\ lastEvent' = NoFix
    /\ UNCHANGED <<goalPaceSeconds, targetDistance, gpsPoints, totalDistance,
                   elapsedTime, pausedTimeRef, lastAnnouncementDistanceRef,
                   currentRunData, view, saved, history, localStorage,
                   storageFault, goalMinutes, goalSeconds,
                   setupTargetDistance, keepAwake, wakeLockSupported,
                   wakeLockRef, wakeLockRequests, wakeLocks, wakeLockCount,
                   pendingUpdates, now, geoSupported, activeMs, pausedMs,
                   pausedCleanly>>

\* the distance cut to two decimals instead of rounded
distanceKmFixed2_truncates(td) == td \div 10

\* handleFinish: (totalDistance / 1000).toFixed(2), in hundredths of a km
distanceKmFixed2(td) == (td + 5) \div 10

\* the average pace reported as 0 when no distance was covered
avgPaceOf_zeroWithoutDistance(et, km100) ==
    IF km100 = 0
    THEN [kind |-> "finite", value |-> 0]
    ELSE [kind |-> "finite", value |-> (et * 100) \div km100]

\* handleFinish: elapsedTime / parseFloat(distanceKm), a whole number of
\* seconds per km when finite; division by 0 gives NaN (0 / 0) or Infinity
avgPaceOf(et, km100) ==
    IF km100 = 0
    THEN [kind |-> IF et = 0 THEN "NaN" ELSE "Infinity", value |-> 0]
    ELSE [kind |-> "finite", value |-> (et * 100) \div km100]

\* handleFinish that stops the timer with resetTimer in place of pauseTimer
handleFinish_resetsTimer ==
    /\ runState \in {"running", "paused"}
    /\ runState' = "finished"
    /\ geoWatches' = stopGPSTracking
    /\ watchIdRef' = NULL
    /\ intervals' = clearTimer
    /\ timerRef' = NULL
    /\ pausedTimeRef' = 0
    /\ elapsedTime' = 0
    /\ startTimeRef' = NULL
    /\ currentRunData' =
           Some([time |-> elapsedTime,
                 distance |-> distanceKmFixed2(totalDistance),
                 avgPace |-> avgPaceOf(elapsedTime, distanceKmFixed2(totalDistance)),
                 date |-> now,
                 goalPace |-> goalPaceSeconds,
                 targetDistance |-> targetDistance])
    /\ paceWindowRef' = Render(TRUE, totalDistance, elapsedTime, paceWindowRef)
    /\ currentPace' = RenderPace(TRUE, totalDistance, elapsedTime, paceWindowRef, currentPace)
    /\ lastEvent' = NoFix
    /\ UNCHANGED <<goalPaceSeconds, targetDistance, gpsPoints, totalDistance,
                   gpsStatus, lastAnnouncementDistanceRef, view, saved,
                   history, localStorage, storageFault, goalMinutes,
                   goalSeconds, setupTargetDistance, keepAwake,
                   wakeLockSupported, wakeLockRef, wakeLockRequests,
                   wakeLocks, wakeLockCount, pendingUpdates, now,
                   geoSupported, activeMs, pausedMs, resumed, pausedCleanly,
                   awaitingFirstFix>>

\* "Finish" button of Controls, rendered while running or paused
handleFinish ==
    /\ runState \in {"running", "paused"}
    /\ runState' = "finished"
    /\ geoWatches' = stopGPSTracking
    /\ watchIdRef' = NULL
    /\ intervals' = clearTimer
    /\ timerRef' = NULL
    /\ pausedTimeRef' = pauseTimer
    /\ currentRunData' =
           Some([time |-> elapsedTime,
                 distance |-> distanceKmFixed2(totalDistance),
                 avgPace |-> avgPaceOf(elapsedTime, distanceKmFixed2(totalDistance)),
                 date |-> now,
                 goalPace |-> goalPaceSeconds,
                 targetDistance |-> targetDistance])
    /\ paceWindowRef' = Render(TRUE, totalDistance, elapsedTime, paceWindowRef)
    /\ currentPace' = RenderPace(TRUE, totalDistance, elapsedTime, paceWindowRef, currentPace)
    /\ lastEvent' = NoFix
    /\ UNCHANGED <<goalPaceSeconds, targetDistance, gpsPoints, totalDistance,
                   gpsStatus, elapsedTime, startTimeRef,
                   lastAnnouncementDistanceRef, view, saved, history,
                   localStorage, storageFault, goalMinutes, goalSeconds,
                   setupTargetDistance, keepAwake, wakeLockSupported,
                   wakeLockRef, wakeLockRequests, wakeLocks, wakeLockCount,
                   pendingUpdates, now, geoSupported, activeMs, pausedMs,
                   resumed, pausedCleanly, awaitingFirstFix>>

\* handleNewRun without the reset of lastAnnouncementDistanceRef
handleNewRun_keepsMarker ==
    /\ runState = "finished"
    /\ runState' = "idle"
    /\ gpsPoints' = <<>>
    /\ totalDistance' = 0
    /\ gpsStatus' = <<"Not started">>
    /\ intervals' = clearTimer
    /\ timerRef' = NULL
    /\ elapsedTime' = 0
    /\ pausedTimeRef' = 0
    /\ startTimeRef' = NULL
    /\ paceWindowRef' = <<>>
    /\ currentPace' = NULL
    /\ currentRunData' = NULL
    /\ saved' = FALSE
    /\ activeMs' = 0
    /\ pausedMs' = 0
    /\ resumed' = FALSE
    /\ pausedCleanly' = TRUE
    /\ awaitingFirstFix' = FALSE
    /\ lastEvent' = NoFix
    /\ UNCHANGED <<goalPaceSeconds, targetDistance, watchIdRef,
                   lastAnnouncementDistanceRef, view, history, localStorage,
                   storageFault, goalMinutes, goalSeconds,
                   setupTargetDistance, keepAwake, wakeLockSupported,
                   wakeLockRef, wakeLockRequests, wakeLocks, wakeLockCount,
                   pendingUpdates, now, geoSupported, geoWatches>>

\* handleNewRun that also puts the run configuration back to its defaults
handleNewRun_resetsConfig ==
    /\ runState = "finished"
    /\ runState' = "idle"
    /\ goalPaceSeconds' = 300
    /\ targetDistance' = 5000
    /\ gpsPoints' = <<>>
    /\ totalDistance' = 0
    /\ gpsStatus' = <<"Not started">>
    /\ intervals' = clearTimer
    /\ timerRef' = NULL
    /\ elapsedTime' = 0
    /\ pausedTimeRef' = 0
    /\ startTimeRef' = NULL
    /\ paceWindowRef' = <<>>
    /\ currentPace' = NULL
    /\ currentRunData' = NULL
    /\ saved' = FALSE
    /\ lastAnnouncementDistanceRef' = 0
    /\ activeMs' = 0
    /\ pausedMs' = 0
    /\ resumed' = FALSE
    /\ pausedCleanly' = TRUE
    /\ awaitingFirstFix' = FALSE
    /\ lastEvent' = NoFix
    /\ UNCHANGED <<watchIdRef, view, history, localStorage, storageFault,
                   goalMinutes, goalSeconds, setupTargetDistance, keepAwake,
                   wakeLockSupported, wakeLockRef, wakeLockRequests,
                   wakeLocks, wakeLockCount, pendingUpdates, now,
                   geoSupported, geoWatches>>

\* "Back to Home" / "Skip & Go Home" button of SummaryView, rendered while
\* finished
handleNewRun ==
    /\ runState = "finished"
    /\ runState' = "idle"
    /\ gpsPoints' = <<>>
    /\ totalDistance' = 0
    /\ gpsStatus' = <<"Not started">>
    /\ intervals' = clearTimer
    /\ timerRef' = NULL
    /\ elapsedTime' = 0
    /\ pausedTimeRef' = 0
    /\ startTimeRef' = NULL
    /\ paceWindowRef' = <<>>
    /\ currentPace' = NULL
    /\ currentRunData' = NULL
    /\ saved' = FALSE
    /\ lastAnnouncementDistanceRef' = 0
    /\ activeMs' = 0
    /\ pausedMs' = 0
    /\ resumed' = FALSE
    /\ pausedCleanly' = TRUE
    /\ awaitingFirstFix' = FALSE
    /\ lastEvent' = NoFix
    /\ UNCHANGED <<goalPaceSeconds, targetDistance, watchIdRef, view, history,
                   localStorage, storageFault, goalMinutes, goalSeconds,
                   setupTargetDistance, keepAwake, wakeLockSupported,
                   wakeLockRef, wakeLockRequests, wakeLocks, wakeLockCount,
                   pendingUpdates, now, geoSupported, geoWatches>>

\* handleSaveRun: the record handed to saveRun
runToSave(data, notes) ==
    [time |-> data.time, distance |-> data.distance, avgPace |-> data.avgPace,
     date |-> data.date, goalPace |-> data.goalPace,
     targetDistance |-> data.targetDistance,
     notes |-> notes, id |-> ToString(now)]

\* the "Save Run" button left in place after a save: no test of saved
handleSaveRunWithin_buttonStays(maxHistory) ==
    /\ runState = "finished"
    /\ Len(loadRunHistory(localStorage, storageFault)) < maxHistory
    /\ \E notes \in Notes :
         LET run == runToSave(Val(currentRunData), notes)
         IN  /\ localStorage' = IF currentRunData # NULL
                                THEN saveRun(run, localStorage, storageFault)
                                ELSE localStorage
             /\ lastEvent' = [kind |-> "save", run |-> run]
    /\ saved' = TRUE
    /\ UNCHANGED <<runState, goalPaceSeconds, targetDistance, gpsPoints,
                   totalDistance, gpsStatus, watchIdRef, elapsedTime,
                   timerRef, startTimeRef, pausedTimeRef, paceWindowRef,
                   lastAnnouncementDistanceRef, currentRunData, view, history,
                   storageFault, goalMinutes, goalSeconds,
                   setupTargetDistance, keepAwake, wakeLockSupported,
                   wakeLockRef, wakeLockRequests, wakeLocks, wakeLockCount,
                   pendingUpdates, currentPace, now, geoSupported, geoWatches,
                   intervals, activeMs, pausedMs, resumed, pausedCleanly,
                   awaitingFirstFix>>

\* "Save Run" button of SummaryView, rendered while finished and not yet
\* saved: handleSave calls handleSaveRun(notes), then setSaved(true)
handleSaveRunWithin(maxHistory) ==
    /\ runState = "finished"
    /\ ~saved
    /\ Len(loadRunHistory(localStorage, storageFault)) < maxHistory
    /\ \E notes \in Notes :
         LET run == runToSave(Val(currentRunData), notes)
         IN  /\ localStorage' = IF currentRunData # NULL
                                THEN saveRun(run, localStorage, storageFault)
                                ELSE localStorage
             /\ lastEvent' = [kind |-> "save", run |-> run]
    /\ saved' = TRUE
    /\ UNCHANGED <<runState, goalPaceSeconds, targetDistance, gpsPoints,
                   totalDistance, gpsStatus, watchIdRef, elapsedTime,
                   timerRef, startTimeRef, pausedTimeRef, paceWindowRef,
                   lastAnnouncementDistanceRef, currentRunData, view, history,
                   storageFault, goalMinutes, goalSeconds,
                   setupTargetDistance, keepAwake, wakeLockSupported,
                   wakeLockRef, wakeLockRequests, wakeLocks, wakeLockCount,
                   pendingUpdates, currentPace, now, geoSupported, geoWatches,
                   intervals, activeMs, pausedMs, resumed, pausedCleanly,
                   awaitingFirstFix>>

\* "View Run History" button of the idle screen: RunHistory mounts
handleViewHistory ==
    /\ runState = "idle"
    /\ view = "tracker"
    /\ view' = "history"
    /\ history' = loadRunHistory(localStorage, storageFault)
    /\ paceWindowRef' = Render(TRUE, totalDistance, elapsedTime, paceWindowRef)
    /\ currentPace' = RenderPace(TRUE, totalDistance, elapsedTime, paceWindowRef, currentPace)
    /\ lastEvent' = NoFix
    /\ UNCHANGED <<runState, goalPaceSeconds, targetDistance, gpsPoints,
                   totalDistance, gpsStatus, watchIdRef, elapsedTime,
                   timerRef, startTimeRef, pausedTimeRef,
                   lastAnnouncementDistanceRef, currentRunData, saved,
                   localStorage, storageFault, goalMinutes, goalSeconds,
                   setupTargetDistance, keepAwake, wakeLockSupported,
                   wakeLockRef, wakeLockRequests, wakeLocks, wakeLockCount,
                   pendingUpdates, now, geoSupported, geoWatches, intervals,
                   activeMs, pausedMs, resumed, pausedCleanly,
                   awaitingFirstFix>>

\* "Close" button of RunHistory: RunHistory unmounts
handleCloseHistory ==
    /\ view = "history"
    /\ view' = "tracker"
    /\ history' = <<>>
    /\ paceWindowRef' = Render(TRUE, totalDistance, elapsedTime, paceWindowRef)
    /\ currentPace' = RenderPace(TRUE, totalDistance, elapsedTime, paceWindowRef, currentPace)
    /\ lastEvent' = NoFix
    /\ UNCHANGED <<runState, goalPaceSeconds, targetDistance, gpsPoints,
                   totalDistance, gpsStatus, watchIdRef, elapsedTime,
                   timerRef, startTimeRef, pausedTimeRef,
                   lastAnnouncementDistanceRef, currentRunData, saved,
                   localStorage, storageFault, goalMinutes, goalSeconds,
                   setupTargetDistance, keepAwake, wakeLockSupported,
                   wakeLockRef, wakeLockRequests, wakeLocks, wakeLockCount,
                   pendingUpdates, now, geoSupported, geoWatches, intervals,
                   activeMs, pausedMs, resumed, pausedCleanly,
                   awaitingFirstFix>>

\* "Delete" button of a run listed by RunHistory; the user answers confirm()
handleDelete ==
    /\ view = "history"
    /\ \E i \in 1..Len(history), confirmed \in BOOLEAN :
         LET runId == history[i].id
             stored == IF confirmed
                       THEN deleteRun(runId, localStorage, storageFault)
                       ELSE localStorage
         IN  /\ localStorage' = stored
             /\ history' = IF confirmed
                           THEN loadRunHistory(stored, storageFault)
                           ELSE history
             /\ lastEvent' = [kind |-> "delete", id |-> runId,
                              confirmed |-> confirmed]
    /\ UNCHANGED <<runState, goalPaceSeconds, targetDistance, gpsPoints,
                   totalDistance, gpsStatus, watchIdRef, elapsedTime,
                   timerRef, startTimeRef, pausedTimeRef, paceWindowRef,
                   lastAnnouncementDistanceRef, currentRunData, view, saved,
                   storageFault, goalMinutes, goalSeconds,
                   setupTargetDistance, keepAwake, wakeLockSupported,
                   wakeLockRef, wakeLockRequests, wakeLocks, wakeLockCount,
                   pendingUpdates, currentPace, now, geoSupported, geoWatches,
                   intervals, activeMs, pausedMs, resumed, pausedCleanly,
                   awaitingFirstFix>>

\* the browser store starts or stops failing (storage disabled, quota reached)
StorageFaultChanges ==
    /\ \E fault \in StorageFaults \ {storageFault} : storageFault' = fault
    /\ lastEvent' = NoFix
    /\ UNCHANGED <<runState, goalPaceSeconds, targetDistance, gpsPoints,
                   totalDistance, gpsStatus, watchIdRef, elapsedTime,
                   timerRef, startTimeRef, pausedTimeRef, paceWindowRef,
                   lastAnnouncementDistanceRef, currentRunData, view, saved,
                   history, localStorage, goalMinutes, goalSeconds,
                   setupTargetDistance, keepAwake, wakeLockSupported,
                   wakeLockRef, wakeLockRequests, wakeLocks, wakeLockCount,
                   pendingUpdates, currentPace, now, geoSupported, geoWatches,
                   intervals, activeMs, pausedMs, resumed, pausedCleanly,
                   awaitingFirstFix>>

\* the text kept under STORAGE_KEY is damaged outside the application
StorageCorrupted ==
    /\ localStorage.kind # "garbage"
    /\ localStorage' = StoredGarbage
    /\ lastEvent' = NoFix
    /\ UNCHANGED <<runState, goalPaceSeconds, targetDistance, gpsPoints,
                   totalDistance, gpsStatus, watchIdRef, elapsedTime,
                   timerRef, startTimeRef, pausedTimeRef, paceWindowRef,
                   lastAnnouncementDistanceRef, currentRunData, view, saved,
                   history, storageFault, goalMinutes, goalSeconds,
                   setupTargetDistance, keepAwake, wakeLockSupported,
                   wakeLockRef, wakeLockRequests, wakeLocks, wakeLockCount,
                   pendingUpdates, currentPace, now, geoSupported, geoWatches,
                   intervals, activeMs, pausedMs, resumed, pausedCleanly,
                   awaitingFirstFix>>

\* another tab of the application, sharing the store, deletes a stored run
DeletedElsewhere ==
    /\ storageFault = "none"
    /\ \E i \in 1..Len(localStorage.runs) :
         localStorage' = deleteRun(localStorage.runs[i].id, localStorage, storageFault)
    /\ lastEvent' = NoFix
    /\ UNCHANGED <<runState, goalPaceSeconds, targetDistance, gpsPoints,
                   totalDistance, gpsStatus, watchIdRef, elapsedTime,
                   timerRef, startTimeRef, pausedTimeRef, paceWindowRef,
                   lastAnnouncementDistanceRef, currentRunData, view, saved,
                   history, storageFault, goalMinutes, goalSeconds,
                   setupTargetDistance, keepAwake, wakeLockSupported,
                   wakeLockRef, wakeLockRequests, wakeLocks, wakeLockCount,
                   pendingUpdates, currentPace, now, geoSupported, geoWatches,
                   intervals, activeMs, pausedMs, resumed, pausedCleanly,
                   awaitingFirstFix>>

\* the RunHistory overlay (fixed inset-0, z-50) does not cover the tracker
TrackerOnTop == view = "tracker"

\* "Start New Run" button of the idle screen, reachable while not covered
handleSetupRunOnTop == TrackerOnTop /\ handleSetupRun

\* ----------------------------------------------------------- specifications
ClockAdvance == ClockAdvanceBy(ClockSteps, MaxNow)
GpsFix == GpsFixAt(Positions, MaxFixes)

Next ==
    \/ ClockAdvance
    \/ TimerTick
    \/ GpsFix
    \/ GpsError
    \/ handleSetupRun
    \/ handleCancelSetup
    \/ handleStartFromSetup
    \/ handlePause
    \/ handleResume
    \/ handleFinish
    \/ handleNewRun

Spec == Init /\ [][Next]_vars

ClockAdvanceFine == ClockAdvanceBy(TimerClockSteps, TimerMaxNow)
GpsFixNear == GpsFixAt(TimerPositions, TimerMaxFixes)

\* ------------------------------------------------------------ the wake lock
\* the keep-awake checkbox of StatusBar: setKeepAwake(e.target.checked), the
\* render, then the cleanup of the previous wake-lock effect and the effect
\* itself, handleWakeLock up to its await
handleKeepAwakeChange ==
    /\ wakeLockSupported
    /\ ~keepAwake => wakeLockCount < MaxLockRequests
    /\ keepAwake' = ~keepAwake
    /\ wakeLocks' = IF wakeLockRef # NULL
                    THEN wakeLocks \ {Val(wakeLockRef)}
                    ELSE wakeLocks
    /\ wakeLockRef' = NULL
    /\ wakeLockRequests' = IF ~keepAwake
                           THEN wakeLockRequests \cup {wakeLockCount + 1}
                           ELSE wakeLockRequests
    /\ wakeLockCount' = IF ~keepAwake THEN wakeLockCount + 1 ELSE wakeLockCount
    /\ paceWindowRef' = Render(TRUE, totalDistance, elapsedTime, paceWindowRef)
    /\ currentPace' = RenderPace(TRUE, totalDistance, elapsedTime, paceWindowRef, currentPace)
    /\ lastEvent' = NoFix
    /\ UNCHANGED <<runState, goalPaceSeconds, targetDistance, gpsPoints,
                   totalDistance, gpsStatus, watchIdRef, elapsedTime,
                   timerRef, startTimeRef, pausedTimeRef,
                   lastAnnouncementDistanceRef, currentRunData, view, saved,
                   history, localStorage, storageFault, goalMinutes,
                   goalSeconds, setupTargetDistance, wakeLockSupported,
                   pendingUpdates, now, geoSupported, geoWatches, intervals,
                   activeMs, pausedMs, resumed, pausedCleanly,
                   awaitingFirstFix>>

\* navigator.wakeLock.request('screen') resolves: handleWakeLock continues
\* after its await and stores the lock
WakeLockGranted ==
    \E id \in wakeLockRequests :
        /\ wakeLockRequests' = wakeLockRequests \ {id}
        /\ wakeLocks' = wakeLocks \cup {id}
        /\ wakeLockRef' = Some(id)
        /\ lastEvent' = NoFix
        /\ UNCHANGED <<runState, goalPaceSeconds, targetDistance, gpsPoints,
                       totalDistance, gpsStatus, watchIdRef, elapsedTime,
                       timerRef, startTimeRef, pausedTimeRef, paceWindowRef,
                       lastAnnouncementDistanceRef, currentRunData, view,
                       saved, history, localStorage, storageFault,
                       goalMinutes, goalSeconds, setupTargetDistance,
                       keepAwake, wakeLockSupported, wakeLockCount,
                       pendingUpdates, currentPace, now, geoSupported,
                       geoWatches, intervals, activeMs, pausedMs, resumed,
                       pausedCleanly, awaitingFirstFix>>

\* navigator.wakeLock.request('screen') rejects: the catch of handleWakeLock
WakeLockDenied ==
    \E id \in wakeLockRequests :
        /\ wakeLockRequests' = wakeLockRequests \ {id}
        /\ lastEvent' = NoFix
        /\ UNCHANGED <<runState, goalPaceSeconds, targetDistance, gpsPoints,
                       totalDistance, gpsStatus, watchIdRef, elapsedTime,
                       timerRef, startTimeRef, pausedTimeRef, paceWindowRef,
                       lastAnnouncementDistanceRef, currentRunData, view,
                       saved, history, localStorage, storageFault,
                       goalMinutes, goalSeconds, setupTargetDistance,
                       keepAwake, wakeLockSupported, wakeLockRef, wakeLocks,
                       wakeLockCount, pendingUpdates, currentPace, now,
                       geoSupported, geoWatches, intervals, activeMs,
                       pausedMs, resumed, pausedCleanly, awaitingFirstFix>>

NextWake ==
    \/ handleKeepAwakeChange
    \/ WakeLockGranted
    \/ WakeLockDenied
    \/ handleSetupRun
    \/ handleCancelSetup

SpecWake == InitWake /\ [][NextWake]_vars

\* no update of a callback is waiting for its render
Settled == pendingUpdates = NULL

ClockAdvanceFlight == Settled /\ ClockAdvanceBy(ClockSteps, FlightMaxNow)
FixCallbackFlight == FixCallback(TimerPositions)
RenderPendingFlight == RenderPending(FlightMaxFixes)
\* the other buttons: a second click does not arrive before the render
handleSetupRunSettled == Settled /\ handleSetupRun
handleStartFromSetupSettled == Settled /\ handleStartFromSetup
handleResumeSettled == Settled /\ handleResume
handleNewRunSettled == Settled /\ handleNewRun
handleFinishFlight == (runState = "running" \/ Settled) /\ handleFinish

NextFlight ==
    \/ ClockAdvanceFlight
    \/ TickCallback
    \/ FixCallbackFlight
    \/ RenderPendingFlight
    \/ handleSetupRunSettled
    \/ handleStartFromSetupSettled
    \/ handlePause
    \/ handleResumeSettled
    \/ handleFinishFlight
    \/ handleNewRunSettled

SpecFlight == Init /\ [][NextFlight]_vars

NextSetup ==
    \/ handleSetupRun
    \/ handleCancelSetup
    \/ onChangeGoalMinutes
    \/ onChangeGoalSeconds
    \/ onChangeTargetDistance
    \/ handleStart
    \/ handleFinish
    \/ handleNewRun

SpecSetup == Init /\ [][NextSetup]_vars

NextTimer ==
    \/ ClockAdvanceFine
    \/ TimerTick
    \/ GpsFixNear
    \/ GpsError
    \/ handleSetupRun
    \/ handleCancelSetup
    \/ handleStartFromSetup
    \/ handlePause
    \/ handleResume
    \/ handleFinish
    \/ handleNewRun

SpecTimer == Init /\ [][NextTimer]_vars

ClockAdvanceLong == ClockAdvanceBy(LongClockSteps, LongMaxNow)
GpsFixLong == GpsFixAt(LongPositions, LongMaxFixes)

NextLong ==
    \/ ClockAdvanceLong
    \/ TimerTick
    \/ GpsFixLong
    \/ GpsError
    \/ handleSetupRun
    \/ handleCancelSetup
    \/ handleStartFromSetup
    \/ handlePause
    \/ handleResume
    \/ handleFinish
    \/ handleNewRun

SpecLong == Init /\ [][NextLong]_vars

ClockAdvanceSummary == ClockAdvanceBy(ClockSteps, SummaryMaxNow)
GpsFixSummary == GpsFixAt(SummaryPositions, SummaryMaxFixes)
handleSaveRunOnce == handleSaveRunWithin(SummaryMaxHistory)

NextSummary ==
    \/ ClockAdvanceSummary
    \/ TimerTick
    \/ GpsFixSummary
    \/ handleSetupRun
    \/ handleStartFromSetup
    \/ handleFinish
    \/ handleNewRun
    \/ handleSaveRunOnce

SpecSummary == Init /\ [][NextSummary]_vars

ClockAdvanceStore == ClockAdvanceBy(ClockSteps, StoreMaxNow)
handleSaveRun == handleSaveRunWithin(MaxHistory)

NextStore ==
    \/ ClockAdvanceStore
    \/ TimerTick
    \/ handleSetupRunOnTop
    \/ handleStartFromSetup
    \/ handleFinish
    \/ handleNewRun
    \/ handleSaveRun
    \/ handleViewHistory
    \/ handleCloseHistory
    \/ handleDelete
    \/ StorageFaultChanges
    \/ StorageCorrupted
    \/ DeletedElsewhere

SpecStore == Init /\ [][NextStore]_vars

\* ------------------------------------------------ the pace estimator alone
\* one render of App with the state cells holding td and et: line 903 calls
\* getCurrentPace(), which reads them and updates paceWindowRef
EstimatePace ==
    \E td \in PaceDistances, et \in PaceTimes :
        /\ totalDistance' = td
        /\ elapsedTime' = et
        /\ paceWindowRef' = getCurrentPaceWindow(td, et, paceWindowRef)
        /\ currentPace' = getCurrentPace(td, et, paceWindowRef)
        /\ lastEvent' = [kind |-> "render",
                         evicted |-> IF /\ PaceAvailable(td, et)
                                        /\ Len(paceWindowRef) = PACE_SMOOTHING_WINDOW
                                     THEN Some(Head(paceWindowRef))
                                     ELSE NULL]
        /\ UNCHANGED <<runState, goalPaceSeconds, targetDistance, gpsPoints,
                       gpsStatus, watchIdRef, timerRef, startTimeRef,
                       pausedTimeRef, lastAnnouncementDistanceRef,
                       currentRunData, view, saved, history, localStorage,
                       storageFault, goalMinutes, goalSeconds,
                       setupTargetDistance, keepAwake, wakeLockSupported,
                       wakeLockRef, wakeLockRequests, wakeLocks,
                       wakeLockCount, pendingUpdates, now, geoSupported,
                       geoWatches, intervals, activeMs, pausedMs, resumed,
                       pausedCleanly, awaitingFirstFix>>

NextPace == EstimatePace

SpecPace == Init /\ [][NextPace]_vars

\* ------------------------------------------------------------------ claims
AllowedTransitions ==
    { <<"idle", "setup">>, <<"setup", "idle">>, <<"setup", "running">>,
      <<"running", "paused">>, <<"paused", "running">>,
      <<"running", "finished">>, <<"paused", "finished">>,
      <<"finished", "idle">> }

\* C1: the run state changes only along Idle->Setup, Setup->Idle,
\* Setup->Running, Running->Paused, Paused->Running, Running->Finished,
\* Paused->Finished and Finished->Idle, whatever user action, GPS callback or
\* timer tick is taken.
C1_TransitionsOnlyAlongLifecycle ==
    [][runState' # runState => <<runState, runState'>> \in AllowedTransitions]_vars

\* a run that was paused, resumed and finished, in a session that follows an
\* earlier one (the goal pace differs from the initial one)
C1_Witness ==
    /\ runState = "finished"
    /\ resumed
    /\ activeMs >= 1000
    /\ goalPaceSeconds = 240

\* C2: pause/resume round trip.  When every pause was pressed with the
\* displayed elapsedTime equal to the time spent running (e.g. after running
\* 30 s), every timer tick after a resume shows the whole seconds spent
\* running (30 s + 20 s = 50 s), whatever the length of the pause.
C2_PauseResumeRoundTrip ==
    [][(TimerTick /\ resumed /\ pausedCleanly)
          => elapsedTime' = activeMs' \div 1000]_vars

\* 1 s running, a pause of at least half a second, 1 s running again: 2 s
C2_Witness ==
    /\ runState = "running"
    /\ resumed
    /\ pausedCleanly
    /\ pausedTimeRef = 1
    /\ pausedMs >= 500
    /\ activeMs = 2000
    /\ elapsedTime = 2

\* C3: pausing never loses accrued elapsed time: every timer tick after a
\* resume shows floor(time spent in Running / 1 s), also when pause was
\* pressed mid-second or before a delayed tick was delivered.
C3_NoElapsedLostOnPause ==
    [][(TimerTick /\ resumed) => elapsedTime' = activeMs' \div 1000]_vars

\* C4: the first fix accepted after session start and after every resume
\* becomes the reference point and credits zero distance.
C4_FirstFixCreditsNothing ==
    [][(lastEvent'.kind = "fix" /\ lastEvent'.first)
          => /\ totalDistance' = totalDistance
             /\ Len(gpsPoints') = Len(gpsPoints) + 1]_vars

\* C5: a fix that passes the accuracy gate but lies less than
\* MIN_DISTANCE_THRESHOLD_METERS from the previous accepted fix credits no
\* distance and does not become the reference point.
C5_SubThresholdFixDiscarded ==
    [][(/\ lastEvent'.kind = "fix"
        /\ lastEvent'.increment >= 0
        /\ lastEvent'.increment < MIN_DISTANCE_THRESHOLD_METERS)
          => /\ totalDistance' = totalDistance
             /\ gpsPoints' = gpsPoints]_vars

\* sum of the increments between consecutive points that reach the threshold
RECURSIVE CreditedSum(_)
CreditedSum(pts) ==
    IF Len(pts) < 2 THEN 0
    ELSE LET d == Abs(pts[2].lat - pts[1].lat)
         IN  (IF d >= 3 THEN d ELSE 0) + CreditedSum(Tail(pts))

\* C6: totalDistance equals the sum of exactly those increments between
\* consecutive accuracy-passing fixes that are >= 3 m; smaller increments
\* contribute nothing.
C6_TotalIsSumOfCreditedIncrements ==
    totalDistance = CreditedSum(gpsPoints)

\* increments 2 m (dropped) and 3 m (credited)
C6_Witness ==
    /\ Len(gpsPoints) = 3
    /\ gpsPoints[1].lat = 0
    /\ gpsPoints[2].lat = 2
    /\ gpsPoints[3].lat = 5
    /\ totalDistance = 3

\* C7: a fix with accuracy above MAX_GPS_ACCURACY_METERS changes neither the
\* point history, totalDistance nor the announcement marker; a fix whose
\* accuracy equals the limit is appended to the point history.
C7_InaccurateFixIgnored ==
    [][lastEvent'.kind = "fix"
          => IF lastEvent'.accuracy > 30
             THEN UNCHANGED <<gpsPoints, totalDistance,
                              lastAnnouncementDistanceRef>>
             ELSE lastEvent'.accuracy = 30
                    => /\ Len(gpsPoints') = Len(gpsPoints) + 1
                       /\ gpsPoints'[Len(gpsPoints')].accuracy = 30]_vars

\* a 31 m fix has just been delivered to a session that has accrued distance
C7_Witness ==
    /\ lastEvent.kind = "fix"
    /\ lastEvent.accuracy = 31
    /\ Len(gpsPoints) >= 2
    /\ totalDistance >= 505

\* C8: totalDistance changes only by growing while the state stays Running,
\* or by returning to 0 on Finished->Idle.
C8_DistanceGrowsOnlyWhileRunning ==
    [][totalDistance' # totalDistance
          => \/ /\ runState = "running"
                /\ runState' = "running"
                /\ totalDistance' > totalDistance
             \/ /\ runState = "finished"
                /\ runState' = "idle"
                /\ totalDistance' = 0]_vars

\* a session holding distance has been paused for a second
C8_Witness ==
    /\ runState = "paused"
    /\ totalDistance >= 505
    /\ pausedMs >= 1000

\* C9: when a credited fix moves totalDistance across a 500 m boundary while
\* a pace reading is available, exactly one announcement is spoken for that
\* tick, and none is spoken by a tick that leaves the total unchanged.
C9_AnnouncedOncePerCrossing ==
    [][lastEvent'.kind = "fix"
          => /\ (/\ totalDistance' \div 500 > totalDistance \div 500
                 /\ PaceAvailable(totalDistance', elapsedTime'))
                    => lastEvent'.spoke = 1
             /\ totalDistance' = totalDistance => lastEvent'.spoke = 0]_vars

\* C10: on a credited fix the milestone check triggers if and only if
\* floor(newTotal / 500) > floor(lastAnnounced / 500), and it triggers once
\* even when the increment skips several boundaries.
C10_MilestoneCheck ==
    [][(lastEvent'.kind = "fix" /\ totalDistance' # totalDistance)
          => LET crossed == (totalDistance' \div 500)
                                > (lastAnnouncementDistanceRef \div 500)
             IN  /\ lastEvent'.calls = (IF crossed THEN 1 ELSE 0)
                 /\ lastAnnouncementDistanceRef' =
                        IF crossed THEN totalDistance'
                                   ELSE lastAnnouncementDistanceRef]_vars

\* one increment of 1600 m has skipped the 500, 1000 and 1500 m boundaries
C10_Witness ==
    /\ lastEvent.kind = "fix"
    /\ lastEvent.increment = 1600
    /\ lastEvent.calls = 1
    /\ totalDistance = 1600
    /\ lastAnnouncementDistanceRef = 1600

\* C11: the motivational tier of a spoken announcement is determined by
\* diff = currentPace - goalPace, where currentPace is the pace the
\* announcement read and goalPace is the goal pace configured at setup for the
\* current run: diff < -10 "well ahead of pace", -10 <= diff < 0 "on pace",
\* 0 <= diff < 10 "slightly behind", diff >= 10 "pick up the pace".
C11_TierFollowsGoalPaceDifference ==
    [][(lastEvent'.kind = "fix" /\ lastEvent'.spoke = 1)
          => LET diff == Val(lastEvent'.pace) - goalPaceSeconds'
                 tier == Val(lastEvent'.text).tier
             IN  /\ diff < -10 => tier = "well ahead of pace"
                 /\ (-10 <= diff /\ diff < 0) => tier = "on pace"
                 /\ (0 <= diff /\ diff < 10) => tier = "slightly behind"
                 /\ diff >= 10 => tier = "pick up the pace"]_vars

\* a run configured with the 4:00 goal is told "slightly behind" at exactly
\* 240 s/km
C11_Witness ==
    /\ lastEvent.kind = "fix"
    /\ lastEvent.spoke = 1
    /\ goalPaceSeconds = 240
    /\ lastEvent.pace = Some(240)
    /\ Val(lastEvent.text).tier = "slightly behind"

\* C12: a milestone crossing speaks nothing when the pace estimator returns
\* none at that instant, in particular when the total distance is below 10 m
\* or the elapsed time below 1 s.
C12_NoAnnouncementWithoutPace ==
    [][(/\ lastEvent'.kind = "fix"
        /\ lastEvent'.calls = 1
        /\ \/ lastEvent'.pace = NULL
           \/ ~PaceAvailable(totalDistance', elapsedTime'))
          => lastEvent'.spoke = 0]_vars

\* a crossing after a resume, before the first second has been counted
C12_Witness ==
    /\ lastEvent.kind = "fix"
    /\ lastEvent.calls = 1
    /\ lastEvent.spoke = 0
    /\ lastEvent.pace = NULL
    /\ resumed
    /\ elapsedTime = 0

\* C13: the pace estimator returns none and leaves the window unchanged
\* whenever totalDistance < 10 m or elapsed < 1 s; otherwise it returns a
\* value and the sample it adds is the instantaneous pace
\* elapsed / (totalDistance / 1000), which is also the value returned when the
\* window was empty (none for 5 m and 100 s; 100 / 0.015 = 6666.67 s/km, kept
\* here as its floor 6666, for 15 m and 100 s).
C13_PaceNoneBelowThresholds ==
    [][IF totalDistance' < 10 \/ elapsedTime' < 1
       THEN /\ currentPace' = NULL
            /\ paceWindowRef' = paceWindowRef
       ELSE /\ currentPace' # NULL
            /\ Len(paceWindowRef') > 0
            /\ LET p == paceWindowRef'[Len(paceWindowRef')]
               IN  /\ p * totalDistance' <= elapsedTime' * 1000
                   /\ elapsedTime' * 1000 < (p + 1) * totalDistance'
                   /\ paceWindowRef = <<>> => currentPace' = Some(p)]_vars

\* 15 m in 100 s on an empty window
C13_Witness ==
    /\ totalDistance = 15
    /\ elapsedTime = 100
    /\ paceWindowRef = <<6666>>
    /\ currentPace = Some(6666)

\* C14: the pace window is a bounded FIFO: it never holds more than 5
\* samples, a new sample is appended at the tail, the oldest is evicted from
\* the head when the length would exceed 5, and the pace returned is the
\* arithmetic mean (here its floor) of the samples in the window after the
\* push.
C14_WindowIsBoundedFifo ==
    [][/\ Len(paceWindowRef') <= 5
       /\ currentPace' # NULL
            => /\ Len(paceWindowRef') > 0
               /\ LET n == Len(paceWindowRef')
                      pushed == paceWindowRef \o <<paceWindowRef'[n]>>
                  IN  /\ paceWindowRef' = IF Len(paceWindowRef) = 5
                                          THEN SubSeq(pushed, 2, 6)
                                          ELSE pushed
                      /\ Val(currentPace') * n <= SumSeq(paceWindowRef')
                      /\ SumSeq(paceWindowRef') < (Val(currentPace') + 1) * n]_vars

\* the sixth push has evicted the oldest sample (66) from the head; the pace
\* returned is the mean 3386 of the five samples left
C14_Witness ==
    /\ lastEvent.kind = "render"
    /\ lastEvent.evicted = Some(66)
    /\ paceWindowRef = <<100, 66, 10000, 100, 6666>>
    /\ currentPace = Some(3386)

\* C15: the transition Finished -> Idle is a full reset, whether or not the
\* run was saved: afterwards totalDistance = 0, elapsed = 0, the frozen pause
\* value is 0, the pace window and the GPS history are empty, the
\* announcement marker is 0 and the summary is cleared.
C15_NewRunResetsSession ==
    [][(runState = "finished" /\ runState' = "idle")
          => /\ totalDistance' = 0
             /\ elapsedTime' = 0
             /\ pausedTimeRef' = 0
             /\ paceWindowRef' = <<>>
             /\ gpsPoints' = <<>>
             /\ lastAnnouncementDistanceRef' = 0
             /\ currentRunData' = NULL]_vars

\* back on the idle screen after a run of 507 m and 1 s that was saved
C15_Witness ==
    /\ runState = "idle"
    /\ localStorage.kind = "array"
    /\ Len(localStorage.runs) = 1
    /\ localStorage.runs[1].distance = 51
    /\ localStorage.runs[1].time = 1
    /\ totalDistance = 0
    /\ lastAnnouncementDistanceRef = 0
    /\ currentRunData = NULL

\* C16: on the transition to Finished a summary is captured whose time is the
\* elapsed seconds at that instant, whose distance is totalDistance in km
\* rounded to 2 decimals and whose goalPace and targetDistance are the
\* session's configuration; the summary does not change while the state is
\* Finished, and a saved run carries exactly these values.
C16_SummaryCapturedAtFinish ==
    [][/\ (runState # "finished" /\ runState' = "finished")
          => /\ currentRunData' # NULL
             /\ Val(currentRunData').time = elapsedTime'
             /\ Abs(10 * Val(currentRunData').distance - totalDistance') <= 5
             /\ Val(currentRunData').goalPace = goalPaceSeconds'
             /\ Val(currentRunData').targetDistance = targetDistance'
       /\ (runState = "finished" /\ runState' = "finished")
          => currentRunData' = currentRunData
       /\ lastEvent'.kind = "save"
          => /\ localStorage'.kind = "array"
             /\ Len(localStorage'.runs) > 0
             /\ LET run == localStorage'.runs[1]
                    data == Val(currentRunData)
                IN  /\ run.time = data.time
                    /\ run.distance = data.distance
                    /\ run.goalPace = data.goalPace
                    /\ run.targetDistance = data.targetDistance]_vars

\* the run just saved: 507 m in 1 s under the 4:00 / 10 km configuration,
\* kept as 0.51 km
C16_Witness ==
    /\ lastEvent.kind = "save"
    /\ runState = "finished"
    /\ totalDistance = 507
    /\ elapsedTime = 1
    /\ localStorage.runs[1].distance = 51
    /\ localStorage.runs[1].time = 1
    /\ localStorage.runs[1].goalPace = 240
    /\ localStorage.runs[1].targetDistance = 10000

\* C17: saving prepends: immediately after a successful save, list() returns
\* the saved run at position 0 followed by the previous contents in their
\* previous order, and its length has grown by exactly 1.
C17_SavePrepends ==
    [][(lastEvent'.kind = "save" /\ storageFault = "none")
          => LET before == loadRunHistory(localStorage, storageFault)
                 after == loadRunHistory(localStorage', storageFault')
             IN  /\ Len(after) = Len(before) + 1
                 /\ after[1] = lastEvent'.run
                 /\ \A i \in 1..Len(before) : after[i + 1] = before[i]]_vars

\* a second run has just been saved in front of a different, older one
C17_Witness ==
    /\ lastEvent.kind = "save"
    /\ localStorage.kind = "array"
    /\ Len(localStorage.runs) = 2
    /\ localStorage.runs[1] = lastEvent.run
    /\ localStorage.runs[2] # lastEvent.run

\* C18: after delete(id) the list holds no entry with that id and every
\* other entry in its previous relative order; deleting an id that is not
\* present leaves the list as it was.
C18_DeleteRemovesOnlyThatId ==
    [][(lastEvent'.kind = "delete" /\ lastEvent'.confirmed /\ storageFault = "none")
          => LET id == lastEvent'.id
                 before == loadRunHistory(localStorage, storageFault)
                 after == loadRunHistory(localStorage', storageFault')
             IN  /\ \A i \in 1..Len(after) : after[i].id # id
                 /\ after = SelectSeq(before, LAMBDA run : run.id # id)
                 /\ (\A i \in 1..Len(before) : before[i].id # id)
                        => after = before]_vars

\* one of two listed runs has been deleted, the other one is still stored
C18_Witness ==
    /\ lastEvent.kind = "delete"
    /\ lastEvent.confirmed
    /\ Len(history) = 1
    /\ history = localStorage.runs
    /\ history[1].id # lastEvent.id

\* C19: when the store is unavailable or holds corrupted data, list() returns
\* an empty sequence, and save and delete are skipped without modifying what
\* is stored.
C19_FaultyStoreLeftAlone ==
    [][LET faulty == storageFault = "unavailable" \/ localStorage.kind = "garbage"
       IN  /\ faulty => loadRunHistory(localStorage, storageFault) = <<>>
           /\ (/\ faulty
               /\ \/ lastEvent'.kind = "save"
                  \/ (lastEvent'.kind = "delete" /\ lastEvent'.confirmed))
                  => localStorage' = localStorage]_vars

\* C20: the saved runs of the history have pairwise distinct ids.
C20_IdsDistinct ==
    LET runs == loadRunHistory(localStorage, storageFault)
    IN  \A i, j \in 1..Len(runs) : i # j => runs[i].id # runs[j].id

\* C21: when the host has no location service, starting or resuming leaves
\* the status at "GPS not supported" and creates no subscription; for the
\* whole session totalDistance stays 0 and the pace stays none, while the
\* timer is registered whenever the state is Running (elapsed time advances,
\* and pause, resume and finish are reached).
C21_UnsupportedGpsLeavesTimerOnly ==
    ~geoSupported
        => /\ geoWatches = {}
           /\ watchIdRef = NULL
           /\ totalDistance = 0
           /\ currentPace = NULL
           /\ paceWindowRef = <<>>
           /\ runState \in {"running", "paused", "finished"}
                  => gpsStatus = <<"GPS not supported">>
           /\ runState = "running"
                  => /\ timerRef # NULL
                     /\ \E t \in intervals : t.id = Val(timerRef)

\* without a location service a run was timed for a second, paused, resumed
\* and finished
C21_Witness ==
    /\ ~geoSupported
    /\ runState = "finished"
    /\ resumed
    /\ elapsedTime = 1
    /\ gpsStatus = <<"GPS not supported">>
    /\ Val(currentRunData).distance = 0

\* C22: a GPS error changes only the status string: the run state, the
\* timer, elapsedTime, totalDistance, the reference point and the pace window
\* are the same after the error callback as before it.
C22_ErrorChangesOnlyStatus ==
    [][lastEvent'.kind = "error"
          => UNCHANGED <<runState, timerRef, intervals, startTimeRef,
                         pausedTimeRef, elapsedTime, totalDistance, gpsPoints,
                         lastAnnouncementDistanceRef, watchIdRef, geoWatches,
                         paceWindowRef>>]_vars

\* C24: the RunConfig captured on Setup -> Running has a strictly positive
\* goal pace and a strictly positive target distance, whatever was typed
\* into the setup form.
C24_ConfigStrictlyPositive ==
    runState \in {"running", "paused", "finished"}
        => goalPaceSeconds > 0 /\ targetDistance > 0

\* C23: once a pause or finish request has returned, no GPS fix and no timer
\* tick is processed: while the state stays Paused or Finished,
\* totalDistance, the reference point, the announcement marker and
\* elapsedTime do not change, also when a fix or tick was in flight when
\* the stop was issued.
C23_NothingProcessedAfterStop ==
    [][(runState \in {"paused", "finished"} /\ runState' = runState)
          => UNCHANGED <<totalDistance, gpsPoints,
                         lastAnnouncementDistanceRef, elapsedTime>>]_vars

C27_OneSamplePerGpsTick ==
    [][IF lastEvent'.kind = "fix" /\ gpsPoints' # gpsPoints
       THEN paceWindowRef' =
                getCurrentPaceWindow(totalDistance', elapsedTime', paceWindowRef)
       ELSE \/ paceWindowRef' = paceWindowRef
            \/ runState' = "idle" /\ paceWindowRef' = <<>>]_vars

\* C28: the pace an announcement uses is the smoothed pace computed from the
\* session's totalDistance and elapsedTime as of the GPS fix that triggered
\* it, in every run, paused before or not.
C28_AnnouncementUsesCurrentTotals ==
    [][(lastEvent'.kind = "fix" /\ lastEvent'.calls = 1)
          => lastEvent'.pace =
                 getCurrentPace(totalDistance', elapsedTime', paceWindowRef)]_vars

\* C29: when the milestone check of a fix triggers, the marker
\* lastAnnouncementDistanceRef becomes the new total itself (520, not the
\* boundary 500); a fix on which the check does not trigger leaves the
\* marker as it was, and no other step changes it except the reset to 0 at
\* the start of a run and for a new run.
C29_MarkerIsNewTotal ==
    [][IF lastEvent'.kind = "fix"
       THEN lastAnnouncementDistanceRef' =
                IF lastEvent'.calls = 1 THEN totalDistance'
                                        ELSE lastAnnouncementDistanceRef
       ELSE lastAnnouncementDistanceRef' \in {lastAnnouncementDistanceRef, 0}]_vars

\* the check triggered at 505 m and set the marker to 505, and a later fix
\* that did not trigger it has left the marker there
C29_Witness ==
    /\ lastEvent.kind = "fix"
    /\ lastEvent.calls = 0
    /\ Len(gpsPoints) = 3
    /\ totalDistance = 505
    /\ lastAnnouncementDistanceRef = 505

\* C30: while the state is Paused, elapsedTime keeps the value it had when
\* Pause was pressed, whatever happens, and after the resume no value
\* smaller than that frozen value is shown.
C30_ElapsedFrozenWhilePaused ==
    [][/\ runState = "paused" => elapsedTime' = elapsedTime
       /\ (runState = "running" /\ runState' = "running" /\ resumed)
              => elapsedTime' >= pausedTimeRef]_vars

\* C31: every timer tick sets elapsedTime to floor((now - startReference) /
\* 1000) read from the wall clock, not to the previous value plus one; in a
\* session that was never paused this is the whole number of seconds spent
\* running, however many earlier ticks were missed or late.
C31_TickReadsWallClock ==
    [][lastEvent'.kind = "tick"
          => /\ elapsedTime' = (now' - Val(startTimeRef')) \div 1000
             /\ ~resumed => elapsedTime' = activeMs' \div 1000]_vars

\* the first tick of a run came 1.5 s late and took elapsedTime from 0 to 2
C31_Witness ==
    /\ lastEvent.kind = "tick"
    /\ lastEvent.before = 0
    /\ elapsedTime = 2
    /\ now = 2500
    /\ ~resumed

\* C32: the run configuration (goal pace, target distance) is written only
\* by the Setup -> Running transition: every other step (GPS fix, GPS
\* error, timer tick, pause, resume, finish, new run) leaves it unchanged.
C32_ConfigWrittenOnlyAtStart ==
    [][<<goalPaceSeconds, targetDistance>>' # <<goalPaceSeconds, targetDistance>>
          => runState = "setup" /\ runState' = "running"]_vars

\* a run configured away from the defaults has received fixes, was paused,
\* resumed and finished, and still has its configuration
C32_Witness ==
    /\ runState = "finished"
    /\ goalPaceSeconds = 240
    /\ targetDistance = 10000
    /\ resumed
    /\ totalDistance > 0
    /\ elapsedTime > 0
    /\ Val(currentRunData).goalPace = 240

\* C33: stopping is idempotent.  Finish pressed while Paused finds no
\* subscription and no timer: it leaves the handles, the registrations,
\* the reference instant, elapsedTime, totalDistance, the reference point
\* and the marker as they are, and pauseTimer stores the displayed
\* elapsedTime as the frozen value again.  Pause pressed when the host has
\* no location service finds no subscription and leaves the GPS side as
\* it is.
C33_StopIsIdempotent ==
    [][/\ (runState = "paused" /\ runState' = "finished")
            => /\ geoWatches = {} /\ intervals = {}
               /\ UNCHANGED <<geoWatches, watchIdRef, intervals, timerRef,
                              startTimeRef, elapsedTime, totalDistance,
                              gpsPoints, lastAnnouncementDistanceRef,
                              gpsStatus>>
               /\ pausedTimeRef' = elapsedTime
       /\ (runState = "running" /\ runState' = "paused" /\ ~geoSupported)
            => /\ geoWatches = {}
               /\ UNCHANGED <<geoWatches, watchIdRef, gpsStatus, totalDistance,
                              gpsPoints, lastAnnouncementDistanceRef,
                              elapsedTime, startTimeRef>>]_vars

\* without a location service a run was paused after a second and, still
\* paused a second later, finished
C33_Witness ==
    /\ ~geoSupported
    /\ runState = "finished"
    /\ ~resumed
    /\ pausedMs > 0
    /\ elapsedTime = 1
    /\ Val(currentRunData).time = 1

\* C34: in every reachable state there is at most one timer and at most one
\* GPS subscription, each the one its handle names; the timer handle is set
\* exactly when the state is Running, and the subscription handle exactly
\* when the state is Running and the host has a location service.
C34_OneTimerOneSubscription ==
    /\ Cardinality(intervals) <= 1
    /\ Cardinality(geoWatches) <= 1
    /\ timerRef # NULL <=> runState = "running"
    /\ watchIdRef # NULL <=> (runState = "running" /\ geoSupported)
    /\ {t.id : t \in intervals} = {timerRef[i] : i \in 1..Len(timerRef)}
    /\ {w.id : w \in geoWatches} = {watchIdRef[i] : i \in 1..Len(watchIdRef)}

\* a run that was paused and resumed is running with its one timer and its
\* one subscription
C34_Witness ==
    /\ runState = "running"
    /\ resumed
    /\ geoSupported
    /\ Cardinality(intervals) = 1
    /\ Cardinality(geoWatches) = 1
    /\ totalDistance > 0

\* C35: in every reachable state the marker is not ahead of the distance,
\* lastAnnouncementDistanceRef <= totalDistance, and both lie in the same
\* 500 m interval: no crossed boundary is left pending.
C35_MarkerKeepsUpWithDistance ==
    /\ lastAnnouncementDistanceRef <= totalDistance
    /\ lastAnnouncementDistanceRef \div VOICE_ANNOUNCEMENT_INTERVAL_METERS
           = totalDistance \div VOICE_ANNOUNCEMENT_INTERVAL_METERS

\* 5 m were credited below the first boundary (marker still 0), then 500 m
\* more crossed it and the marker followed to 505
C35_Witness ==
    /\ Len(gpsPoints) = 3
    /\ gpsPoints[1].lat = 0
    /\ gpsPoints[2].lat = 5
    /\ totalDistance = 505
    /\ lastAnnouncementDistanceRef = 505

StoredRunCount == Len(loadRunHistory(localStorage, "none"))

\* C37: the history grows only through the Save action in the Finished
\* state, by one run, and each finished run is saved at most once: the
\* save happens with saved = FALSE and sets it, and saved stays set until
\* Finished -> Idle; leaving without a save adds nothing.
C37_SavedAtMostOnce ==
    [][/\ StoredRunCount' > StoredRunCount
            => /\ runState = "finished" /\ runState' = "finished"
               /\ lastEvent'.kind = "save"
               /\ ~saved /\ saved'
               /\ StoredRunCount' = StoredRunCount + 1
       /\ (saved /\ ~saved') => (runState = "finished" /\ runState' = "idle")]_vars

\* a finished run has been saved, something else has happened since, and
\* the store holds the one run
C37_Witness ==
    /\ runState = "finished"
    /\ saved
    /\ lastEvent.kind = "other"
    /\ storageFault = "none"
    /\ StoredRunCount = 1
    /\ now > Val(currentRunData).date

\* C38: the average pace captured at finish is elapsedTime divided by the
\* distance in km rounded to 2 decimals (here its whole part): it is not a
\* finite number exactly when the run finishes with totalDistance below
\* 5 m, where the rounded distance is 0.00 and the division is by zero,
\* and otherwise it is finite and not negative.
C38_AveragePaceAtFinish ==
    [][(runState # "finished" /\ runState' = "finished")
          => LET p == Val(currentRunData').avgPace
                 km100 == Val(currentRunData').distance
             IN  /\ totalDistance' < 5 <=> p.kind # "finite"
                 /\ p.kind # "finite"
                       => /\ km100 = 0
                          /\ p.kind = (IF elapsedTime' = 0 THEN "NaN"
                                                           ELSE "Infinity")
                 /\ p.kind = "finite"
                       => /\ p.value >= 0
                          /\ p.value * km100 <= elapsedTime' * 100
                          /\ elapsedTime' * 100 < (p.value + 1) * km100]_vars

\* a run finished after 1 s with 3 m covered: 0.00 km, average pace Infinity
C38_Witness ==
    /\ runState = "finished"
    /\ totalDistance = 3
    /\ elapsedTime = 1
    /\ Val(currentRunData).distance = 0
    /\ Val(currentRunData).avgPace.kind = "Infinity"

\* C39: whenever keep-awake is off and no wake-lock request is in flight,
\* no wake lock is held, for every interleaving of the switch with the
\* settling of the requests.
C39_NoLockHeldWhenOff ==
    (~keepAwake /\ wakeLockRequests = {}) => wakeLocks = {}


====
